---- MODULE Spec2Model ----
(***************************************************************************)
(* Model of the presence, moderation and message-lifecycle engine of       *)
(* server.js (socket.io chat backend).                                     *)
(*                                                                         *)
(* Every socket.io event handler is an action.  An async handler is cut    *)
(* at its awaits: the code between two awaits is one atomic step (single   *)
(* event loop), and the handler's position is kept in a per-socket frame   *)
(* (loginFrame, msgFrame) together with the handler's local variables.    *)
(* The closure variable currentUser is per socket and survives the         *)
(* socket's disconnect, as in the code.  The store (db.js) is not part of  *)
(* the sources; what the handlers consume from it is modelled from the     *)
(* specification (dbMessages, dbIpBans and the results of db.login).       *)
(***************************************************************************)
EXTENDS Integers, Sequences, FiniteSets, TLC

\* ------------------------------------------------------------------ bounds

\* Socket ids (connections) and the display names the store knows.
Sids == {1, 2, 3}
Names == {"A", "P"}
\* db.ADMIN_USERS: the static PrivilegedAdmin name list.
ADMIN_USERS == {"P"}
\* currentUser = null
NoUser == "null"
\* milliseconds per second (server.js:115, server.js:167)
MsPerSec == 1000
\* The clock is in milliseconds; the model stops it at MaxTime.
MaxTime == 1001
\* /mute durations (seconds) a command may carry.
MaxMuteSecs == 1
\* The instants the clock is read at: the whole seconds and the millisecond
\* on either side of each.
Instants == {t \in 0..MaxTime : t % MsPerSec \in {0, 1, MsPerSec - 1}}
\* db.MAX_HISTORY, scaled down: the cap of the in-memory ring and of the store.
MAX_HISTORY == 2
\* generateId() is modelled as a counter; sends stop when it reaches MaxIds.
MaxIds == 3

\* getClientIp(socket): sockets 1 and 2 share an address.
ClientIp(sid) == IF sid = 3 THEN "ip2" ELSE "ip1"
Ips == {"ip1", "ip2"}

\* ------------------------------------------------------------------ Map helpers
\* A JavaScript Map is a function whose DOMAIN is the set of keys.
EmptyMap == [x \in {} |-> x]
MapHas(m, k) == k \in DOMAIN m
MapSet(m, k, v) == [x \in (DOMAIN m) \cup {k} |-> IF x = k THEN v ELSE m[x]]
MapDelete(m, k) == [x \in (DOMAIN m) \ {k} |-> m[x]]

VARIABLES
  conn,           \* sid -> "new" | "open" | "closing" | "closed" (transport state)
  currentUser,    \* sid -> the handler closure's currentUser (NoUser = null)
  userSockets,    \* Map displayName -> Set of socket ids   (server.js:46)
  onlineUsers,    \* Map socket id -> displayName           (server.js:45)
  adminUsers,     \* Set of socket ids holding the admin flag (server.js:47)
  mutedUsers,     \* Map displayName -> until (ms)          (server.js:48)
  bannedUsers,    \* Set of displayNames                    (server.js:49)
  userStatusMap,  \* Map displayName -> status text         (server.js:50)
  userIpMap,      \* Map displayName -> ip                  (server.js:51)
  messages,       \* the in-memory ring                     (server.js:44)
  dbMessages,     \* the store's persisted room messages
  dbIpBans,       \* the store's persisted IP-ban list
  dbPrivate,      \* the store's persisted private messages
  now,            \* Date.now()
  nextId,         \* generateId() counter
  loginFrame,     \* sid -> the suspended accountLogin/tokenLogin handler
  msgFrame,      \* sid -> the suspended sendMessage/editMessage/deleteMessage handler
  out,            \* what the last step emitted (events, callbacks)
  last            \* what the last step was (operation, actor, command, result)

vars == <<conn, currentUser, userSockets, onlineUsers, adminUsers, mutedUsers,
          bannedUsers, userStatusMap, userIpMap, messages, dbMessages, dbIpBans,
          dbPrivate, now, nextId, loginFrame, msgFrame, out, last>>

\* ------------------------------------------------------------------ session registry

\* The shared in-memory state a synchronous stretch of code works on; out
\* collects what that stretch emits.
World == [conn |-> conn, userSockets |-> userSockets, onlineUsers |-> onlineUsers,
          adminUsers |-> adminUsers, mutedUsers |-> mutedUsers,
          bannedUsers |-> bannedUsers, userStatusMap |-> userStatusMap,
          userIpMap |-> userIpMap, messages |-> messages, out |-> {}]

\* The handler writes the state it worked on back.
Commit(w) ==
  /\ conn' = w.conn
  /\ userSockets' = w.userSockets
  /\ onlineUsers' = w.onlineUsers
  /\ adminUsers' = w.adminUsers
  /\ mutedUsers' = w.mutedUsers
  /\ bannedUsers' = w.bannedUsers
  /\ userStatusMap' = w.userStatusMap
  /\ userIpMap' = w.userIpMap
  /\ messages' = w.messages
  /\ out' = w.out

\* io.sockets.sockets: the sockets the namespace still holds.
Namespace(c) == {s \in Sids : c[s] \in {"open", "closing"}}

\* One emit call: event, scope ("all" = io.emit to every socket of the
\* namespace, "others" = socket.broadcast.emit, "one" = socket.emit or a
\* callback), the socket it is written to (for "others": the socket left out;
\* for "all": none named), and the identity or value it is about.
Emit(ev, scope, to, about) == [ev |-> ev, scope |-> scope, to |-> to, about |-> about]

addUserSocket(us, displayName, socketId) ==
  IF MapHas(us, displayName)
    THEN MapSet(us, displayName, us[displayName] \cup {socketId})
    ELSE MapSet(us, displayName, {socketId})

\* removeUserSocket without userSockets.delete(displayName): the emptied set stays
removeUserSocketKeepEmpty(us, displayName, socketId) ==
  IF MapHas(us, displayName)
    THEN LET rest == us[displayName] \ {socketId}
         IN [map |-> MapSet(us, displayName, rest), last |-> rest = {}]
    ELSE [map |-> us, last |-> FALSE]

\* returns the new map and the function's boolean result
removeUserSocket(us, displayName, socketId) ==
  IF MapHas(us, displayName)
    THEN LET rest == us[displayName] \ {socketId}
         IN IF rest = {}
              THEN [map |-> MapDelete(us, displayName), last |-> TRUE]
              ELSE [map |-> MapSet(us, displayName, rest), last |-> FALSE]
    ELSE [map |-> us, last |-> FALSE]

getUniqueOnlineUsers(us) == DOMAIN us

\* broadcastUserIpList: one 'userIpList' per namespace socket of every
\* PrivilegedAdmin name present in the registry.
broadcastUserIpList(g) ==
  { Emit("userIpList", "one", {sid}, adminName) :
      <<adminName, sid>> \in { p \in ADMIN_USERS \X Sids :
          /\ MapHas(g.userSockets, p[1])
          /\ p[2] \in g.userSockets[p[1]]
          /\ p[2] \in Namespace(g.conn) } }

\* What the last step was.
\* num is a number the step reported or used: the remaining seconds of a mute
\* rejection, the id of the message a send created, the seconds of a /mute;
\* for /ban, 1 when the target was banned already; for /unban, 1 when it
\* directly follows the successful /ban of the same, not yet banned, identity.
\* evicts tells that the step appended a message to a full ring.
\* gate tells what a sendMessage handler that starts in the step finds in the
\* mute map for its sender: "muted", "expired", or "none" (no entry).
LastN(op, sid, cmd, target, result, num) ==
  [op |-> op, sid |-> sid, cmd |-> cmd, target |-> target, result |-> result,
   num |-> num,
   evicts |-> cmd \in {"chat", "/game"} /\ result = "suspended"
                /\ Len(messages) = MAX_HISTORY,
   gate |-> IF op = "sendMessage" /\ msgFrame[sid].pc = "idle"
                 /\ MapHas(mutedUsers, currentUser[sid])
              THEN IF now < mutedUsers[currentUser[sid]] THEN "muted" ELSE "expired"
              ELSE "none"]
Last(op, sid, cmd, target, result) == LastN(op, sid, cmd, target, result, 0)

\* ------------------------------------------------------------------ connect / disconnect

\* io.on('connection'): a fresh closure with currentUser = null.
Connect(sid) ==
  /\ conn[sid] = "new"
  /\ conn' = [conn EXCEPT ![sid] = "open"]
  /\ out' = {}
  /\ last' = Last("connect", sid, "", NoUser, "ok")
  /\ UNCHANGED <<currentUser, userSockets, onlineUsers, adminUsers, mutedUsers,
                 bannedUsers, userStatusMap, userIpMap, messages, dbMessages,
                 dbIpBans, dbPrivate, now, nextId, loginFrame, msgFrame>>

\* the disconnect handler with a purge of the identity's mute entry added
DisconnectHandlerPurgesMute(w, sid, u) ==
  LET w0 == [w EXCEPT !.conn[sid] = "closed"]
  IN IF u = NoUser THEN w0
     ELSE LET r == removeUserSocket(w0.userSockets, u, sid)
              w1 == [w0 EXCEPT !.onlineUsers = MapDelete(@, sid),
                               !.adminUsers = @ \ {sid},
                               !.userSockets = r.map]
          IN IF r.last
               THEN LET w2 == [w1 EXCEPT !.userStatusMap = MapDelete(@, u),
                                         !.userIpMap = MapDelete(@, u),
                                         !.mutedUsers = MapDelete(@, u)]
                    IN [w2 EXCEPT !.out = @ \cup
                          {Emit("userLeft", "all", {}, u)}
                          \cup broadcastUserIpList(w2)]
               ELSE w1

\* socket.on('disconnect'), run for socket sid whose closure holds user u.  The
\* namespace has dropped the socket before the handler runs.
DisconnectHandler(w, sid, u) ==
  LET w0 == [w EXCEPT !.conn[sid] = "closed"]
  IN IF u = NoUser THEN w0
     ELSE LET r == removeUserSocket(w0.userSockets, u, sid)
              w1 == [w0 EXCEPT !.onlineUsers = MapDelete(@, sid),
                               !.adminUsers = @ \ {sid},
                               !.userSockets = r.map]
          IN IF r.last
               THEN LET w2 == [w1 EXCEPT !.userStatusMap = MapDelete(@, u),
                                         !.userIpMap = MapDelete(@, u)]
                    IN [w2 EXCEPT !.out = @ \cup
                          {Emit("userLeft", "all", {}, u)}
                          \cup broadcastUserIpList(w2)]
               ELSE w1

\* The transport of socket sid closes (the client leaves, the network drops, or
\* a forced close completes): the 'disconnect' handler runs.
Disconnect(sid) ==
  /\ conn[sid] \in {"open", "closing"}
  /\ Commit(DisconnectHandler(World, sid, currentUser[sid]))
  /\ last' = Last("disconnect", sid, "", currentUser[sid], "ok")
  /\ UNCHANGED <<currentUser, dbMessages, dbIpBans, dbPrivate, now, nextId, loginFrame, msgFrame>>

\* sock.disconnect(true) on a socket of the namespace.  engine.io closes the
\* transport at once when its write buffer is empty (the 'disconnect' handler
\* then runs inside this call) and otherwise after the buffer has drained (the
\* socket is "closing": it takes no more packets, and its handler runs later).
SocketDisconnect(w, sid, sync) ==
  IF w.conn[sid] # "open" THEN w
  ELSE IF sync THEN DisconnectHandler(w, sid, currentUser[sid])
  ELSE [w EXCEPT !.conn[sid] = "closing"]

\* ------------------------------------------------------------------ login

\* The suspended login handler's position and its live local variables: grant
\* (grantAdminByPassword) until db.login returns; admin (result.account.isAdmin
\* || grantAdminByPassword) and status (result.account.statusText) until line
\* 647; first (isFirstSocket) from line 638 on.
IdleLogin == [pc |-> "idle", grant |-> FALSE, admin |-> FALSE, status |-> "",
              first |-> FALSE]

\* The statusText the store holds for each account.
StatusText(name) == IF name = "A" THEN "st" ELSE ""

\* socket.on('accountLogin') / socket.on('tokenLogin') up to the await of
\* db.login / db.loginWithToken.  The first await, db.isIpBanned(clientIp),
\* touches only the store, so its answer is taken when the event arrives.
\* kind = "account" may carry adminLogin with the admin password: grant is
\* adminLogin && adminPassword === db.EXTRA_ADMIN_PASSWORD; a wrong admin
\* password is rejected before db.login (badAdminPw).
LoginStart(sid, kind, grant, badAdminPw) ==
  /\ conn[sid] = "open"
  /\ loginFrame[sid].pc = "idle"
  /\ kind = "token" => (~grant /\ ~badAdminPw)
  /\ grant => ~badAdminPw
  /\ IF ClientIp(sid) \in dbIpBans \/ badAdminPw
       THEN /\ out' = {Emit("callback", "one", {sid}, "failure")}
            /\ last' = Last(kind, sid, "", NoUser, "rejected")
            /\ UNCHANGED loginFrame
       ELSE /\ out' = {}
            /\ last' = Last(kind, sid, "", NoUser, "suspended")
            /\ loginFrame' = [loginFrame EXCEPT ![sid] =
                                [IdleLogin EXCEPT !.pc = "login", !.grant = grant]]
  /\ UNCHANGED <<conn, currentUser, userSockets, onlineUsers, adminUsers, mutedUsers,
                 bannedUsers, userStatusMap, userIpMap, messages, dbMessages,
                 dbIpBans, dbPrivate, now, nextId, msgFrame>>

\* db.login / db.loginWithToken returns {success: false}, or an account with
\* displayName name and admin flag isAdmin: the ban check, then lines 628-634
\* (742-745), up to the await of db.saveUserIpHistory.
LoginReturned(sid, success, name, isAdmin) ==
  /\ loginFrame[sid].pc = "login"
  /\ IF ~success \/ name \in bannedUsers
       THEN /\ out' = {Emit("callback", "one", {sid}, "failure")}
            /\ last' = Last("login", sid, "", NoUser, "rejected")
            /\ loginFrame' = [loginFrame EXCEPT ![sid] = IdleLogin]
            /\ UNCHANGED <<currentUser, onlineUsers, userIpMap>>
       ELSE /\ currentUser' = [currentUser EXCEPT ![sid] = name]
            /\ onlineUsers' = MapSet(onlineUsers, sid, name)
            /\ userIpMap' = MapSet(userIpMap, name, ClientIp(sid))
            /\ out' = {}
            /\ last' = Last("login", sid, "", NoUser, "suspended")
            /\ loginFrame' = [loginFrame EXCEPT ![sid] =
                                [IdleLogin EXCEPT !.pc = "saveIp",
                                    !.admin = isAdmin \/ loginFrame[sid].grant,
                                    !.status = StatusText(name)]]
  /\ UNCHANGED <<conn, userSockets, adminUsers, mutedUsers, bannedUsers,
                 userStatusMap, messages, dbMessages, dbIpBans, dbPrivate, now, nextId, msgFrame>>

\* db.saveUserIpHistory returned: lines 638-647 (749-758), up to the await of
\* db.getMessages.  currentUser is the closure variable, read again here.
LoginIpSaved(sid) ==
  LET f == loginFrame[sid]
      u == currentUser[sid]
  IN /\ f.pc = "saveIp"
     /\ userSockets' = addUserSocket(userSockets, u, sid)
     /\ adminUsers' = IF f.admin THEN adminUsers \cup {sid} ELSE adminUsers
     /\ userStatusMap' = IF f.status # "" THEN MapSet(userStatusMap, u, f.status)
                                          ELSE userStatusMap
     /\ loginFrame' = [loginFrame EXCEPT ![sid] =
                         [IdleLogin EXCEPT !.pc = "getMessages",
                                           !.first = ~MapHas(userSockets, u)]]
     /\ out' = {}
     /\ last' = Last("login", sid, "", NoUser, "suspended")
     /\ UNCHANGED <<conn, currentUser, onlineUsers, mutedUsers, bannedUsers, userIpMap,
                    messages, dbMessages, dbIpBans, dbPrivate, now, nextId, msgFrame>>

\* db.getMessages returned the persisted history (fresh) or null: lines 652-657
\* (763-768), up to the awaits of the private-message fetches.
LoginGotMessages(sid, fresh) ==
  LET f == loginFrame[sid]
  IN /\ f.pc = "getMessages"
     /\ messages' = IF fresh THEN dbMessages ELSE messages
     /\ loginFrame' = [loginFrame EXCEPT ![sid] = [f EXCEPT !.pc = "tail"]]
     /\ out' = {}
     /\ last' = Last("login", sid, "", NoUser, "suspended")
     /\ UNCHANGED <<conn, currentUser, userSockets, onlineUsers, adminUsers, mutedUsers,
                    bannedUsers, userStatusMap, userIpMap, dbMessages, dbIpBans, dbPrivate, now,
                    nextId, msgFrame>>

\* The private-message fetches returned: lines 683-706 (794-817): the success
\* callback, 'userJoined' to the others if this was the identity's first
\* socket, broadcastUserIpList.
LoginDone(sid) ==
  LET f == loginFrame[sid]
      u == currentUser[sid]
  IN /\ f.pc = "tail"
     /\ out' = {Emit("callback", "one", {sid}, "success")}
               \cup (IF f.first THEN {Emit("userJoined", "others", {sid}, u)} ELSE {})
               \cup broadcastUserIpList(World)
     /\ loginFrame' = [loginFrame EXCEPT ![sid] = IdleLogin]
     /\ last' = Last("login", sid, "", u, "success")
     /\ UNCHANGED <<conn, currentUser, userSockets, onlineUsers, adminUsers, mutedUsers,
                    bannedUsers, userStatusMap, userIpMap, messages, dbMessages,
                    dbIpBans, dbPrivate, now, nextId, msgFrame>>

\* A store call of the login handler throws (db.login, db.saveUserIpHistory):
\* the handler's catch answers with a failure; what was written stays.
LoginThrow(sid) ==
  LET f == loginFrame[sid]
  IN /\ f.pc \in {"login", "saveIp"}
     /\ out' = {Emit("callback", "one", {sid}, "failure")}
     /\ loginFrame' = [loginFrame EXCEPT ![sid] = IdleLogin]
     /\ last' = Last("login", sid, "", NoUser, "thrown")
     /\ UNCHANGED <<conn, currentUser, userSockets, onlineUsers, adminUsers, mutedUsers,
                    bannedUsers, userStatusMap, userIpMap, messages, dbMessages,
                    dbIpBans, dbPrivate, now, nextId, msgFrame>>

\* socket.on('accountLogout'), lines 828-847.  The await of db.logout(token)
\* comes before any access to the shared state.
AccountLogout(sid) ==
  LET u == currentUser[sid]
      r == removeUserSocket(userSockets, u, sid)
      w1 == [World EXCEPT !.onlineUsers = MapDelete(@, sid),
                          !.adminUsers = @ \ {sid},
                          !.userSockets = r.map]
      w2 == [w1 EXCEPT !.userStatusMap = MapDelete(@, u),
                       !.userIpMap = MapDelete(@, u)]
      w3 == [w2 EXCEPT !.out = {Emit("userLeft", "all", {}, u)}
                                \cup broadcastUserIpList(w2)]
  IN /\ conn[sid] = "open"
     /\ IF u = NoUser THEN Commit(World)
        ELSE IF r.last THEN Commit(w3)
        ELSE Commit(w1)
     /\ currentUser' = [currentUser EXCEPT ![sid] = NoUser]
     /\ last' = Last("accountLogout", sid, "", u, "ok")
     /\ UNCHANGED <<dbMessages, dbIpBans, dbPrivate, now, nextId, loginFrame, msgFrame>>

\* ------------------------------------------------------------------ moderation ledger

\* Math.ceil(a / b) for b > 0
CeilDiv(a, b) == -((-a) \div b)

\* checkMuted(username): t1 and t2 are the two readings of Date.now() (lines
\* 114 and 115).  Returns the verdict and the map after the check.
\* checkMuted with the comparison turned around
checkMutedReversed(mu, username, t1, t2) ==
  IF MapHas(mu, username)
    THEN IF t1 > mu[username]
           THEN [muted |-> TRUE, remaining |-> CeilDiv(mu[username] - t2, MsPerSec),
                 map |-> mu]
           ELSE [muted |-> FALSE, remaining |-> 0, map |-> MapDelete(mu, username)]
    ELSE [muted |-> FALSE, remaining |-> 0, map |-> mu]

checkMuted(mu, username, t1, t2) ==
  IF MapHas(mu, username)
    THEN IF t1 < mu[username]
           THEN [muted |-> TRUE, remaining |-> CeilDiv(mu[username] - t2, MsPerSec),
                 map |-> mu]
           ELSE [muted |-> FALSE, remaining |-> 0, map |-> MapDelete(mu, username)]
    ELSE [muted |-> FALSE, remaining |-> 0, map |-> mu]

\* The second reading of the clock is the first or the next millisecond.
SecondReading(t) == {t, t + 1}

\* args[0] is missing
NoArg == ""
Targets == Names \cup {NoArg}

Result(w, type) == [w |-> w, type |-> type]

\* some socket of the identity holds the admin flag (lines 154-163, 196-203)
IsTargetAdmin(w, target) ==
  \E sid \in w.userSockets[target] : sid \in w.adminUsers

\* case '/mute' (lines 139-168); secs is parseInt(args[1]), 0 standing for a
\* duration that is not a positive number.
CmdMute(w, username, isAdmin, target, secs, t) ==
  IF ~isAdmin THEN Result(w, "error")
  ELSE IF target = NoArg THEN Result(w, "error")
  ELSE IF secs <= 0 THEN Result(w, "error")
  ELSE IF target \notin getUniqueOnlineUsers(w.userSockets) THEN Result(w, "error")
  ELSE IF IsTargetAdmin(w, target) /\ username \notin ADMIN_USERS THEN Result(w, "error")
  ELSE Result([w EXCEPT !.mutedUsers = MapSet(@, target, t + secs * MsPerSec)], "system")

\* case '/unmute' (lines 170-182)
CmdUnmute(w, username, isAdmin, target) ==
  IF ~isAdmin THEN Result(w, "error")
  ELSE IF target = NoArg THEN Result(w, "error")
  ELSE IF MapHas(w.mutedUsers, target)
         THEN Result([w EXCEPT !.mutedUsers = MapDelete(@, target)], "system")
  ELSE Result(w, "error")

\* for (const sid of <socket set>) { emit 'banned'; sock.disconnect(true);
\* onlineUsers.delete(sid); adminUsers.delete(sid) } (lines 210-218, 272-280,
\* 307-315).  syncSet: the sockets whose transport closes inside the call.
RECURSIVE KickLoop(_, _, _, _)
KickLoop(w, todo, syncSet, why) ==
  IF todo = {} THEN w
  ELSE LET sid == CHOOSE s \in todo : \A x \in todo : s <= x
           hasSock == sid \in Namespace(w.conn)
           w1 == IF hasSock
                   THEN SocketDisconnect(
                          [w EXCEPT !.out = @ \cup {Emit("banned", "one", {sid}, why)}],
                          sid, sid \in syncSet)
                   ELSE w
           w2 == [w1 EXCEPT !.onlineUsers = MapDelete(@, sid),
                            !.adminUsers = @ \ {sid}]
       IN KickLoop(w2, todo \ {sid}, syncSet, why)

\* lines 208-227: the ban itself, once the checks have passed
BanEffect(w, banTarget, syncSet) ==
  LET w1 == [w EXCEPT !.bannedUsers = @ \cup {banTarget}]
      w2 == KickLoop(w1, w.userSockets[banTarget], syncSet, "ban")
      w3 == [w2 EXCEPT !.userSockets = MapDelete(@, banTarget),
                       !.userStatusMap = MapDelete(@, banTarget)]
  IN [w3 EXCEPT !.out = @ \cup {Emit("userLeft", "all", {}, banTarget)}]

\* case '/ban' (lines 184-228)
CmdBan(w, username, isAdmin, banTarget, syncSet) ==
  IF ~isAdmin THEN Result(w, "error")
  ELSE IF banTarget = NoArg THEN Result(w, "error")
  ELSE IF ~MapHas(w.userSockets, banTarget) THEN Result(w, "error")
  ELSE IF IsTargetAdmin(w, banTarget) /\ username \notin ADMIN_USERS
         THEN Result(w, "error")
  ELSE Result(BanEffect(w, banTarget, syncSet), "system")

\* /unban with /unmute's delete: the entry is taken from the mute map
CmdUnbanFromMuteMap(w, username, isAdmin, unbanUser) ==
  IF ~isAdmin THEN Result(w, "error")
  ELSE IF unbanUser = NoArg THEN Result(w, "error")
  ELSE IF unbanUser \in w.bannedUsers
         THEN Result([w EXCEPT !.mutedUsers = MapDelete(@, unbanUser)], "system")
  ELSE Result(w, "error")

\* case '/unban' (lines 230-242)
CmdUnban(w, username, isAdmin, unbanUser) ==
  IF ~isAdmin THEN Result(w, "error")
  ELSE IF unbanUser = NoArg THEN Result(w, "error")
  ELSE IF unbanUser \in w.bannedUsers
         THEN Result([w EXCEPT !.bannedUsers = @ \ {unbanUser}], "system")
  ELSE Result(w, "error")

\* ------------------------------------------------------------------ message ring and store

\* A room message: the author's identity, whether the display name carries the
\* admin marker, the text ("t0" as sent, "t1" once edited) and the edited flag.
Message(id, user, admin, text) ==
  [id |-> id, user |-> user, admin |-> admin, text |-> text, edited |-> FALSE]

\* addMessageToStorage with pop() for shift(): the newest message goes
addMessageToStoragePop(ms, messageData) ==
  LET pushed == Append(ms, messageData)
  IN IF Len(pushed) > MAX_HISTORY THEN SubSeq(pushed, 1, Len(pushed) - 1) ELSE pushed

\* addMessageToStorage, lines 484-487 (the part before the await)
addMessageToStorage(ms, messageData) ==
  LET pushed == Append(ms, messageData)
  IN IF Len(pushed) > MAX_HISTORY THEN Tail(pushed) ELSE pushed

\* db.addMessage: the store keeps the latest MAX_HISTORY messages.
dbAddMessage(dbm, messageData) ==
  LET pushed == Append(dbm, messageData)
  IN IF Len(pushed) > MAX_HISTORY THEN Tail(pushed) ELSE pushed

\* db.updateMessage / db.deleteMessage accept when the id is a persisted
\* message written under the actor's display name, or the actor is privileged.
dbMayMutate(dbm, id, user, admin, isPrivilegedAdmin) ==
  \E i \in 1..Len(dbm) :
     /\ dbm[i].id = id
     /\ (isPrivilegedAdmin \/ (dbm[i].user = user /\ dbm[i].admin = admin))

\* the ring update of editMessage without the edited flag
EditInRingTextOnly(ms, id) ==
  [i \in 1..Len(ms) |-> IF ms[i].id = id /\ \A j \in 1..(i - 1) : ms[j].id # id
                          THEN [ms[i] EXCEPT !.text = "t1"]
                          ELSE ms[i]]

\* messages[msgIndex].message = newMessage; .edited = true (lines 993-998)
EditInRing(ms, id) ==
  [i \in 1..Len(ms) |-> IF ms[i].id = id /\ \A j \in 1..(i - 1) : ms[j].id # id
                          THEN [ms[i] EXCEPT !.text = "t1", !.edited = TRUE]
                          ELSE ms[i]]

\* messages.splice(msgIndex, 1) for the first entry with the id (lines 1025-1028)
RECURSIVE DeleteFromRing(_, _)
DeleteFromRing(ms, id) ==
  IF ms = << >> THEN << >>
  ELSE IF Head(ms).id = id THEN Tail(ms)
  ELSE <<Head(ms)>> \o DeleteFromRing(Tail(ms), id)

IdleMsg == [pc |-> "idle", id |-> 0, user |-> NoUser, admin |-> FALSE,
            arg |-> "", aff |-> NoUser]

\* ------------------------------------------------------------------ sendMessage

\* sendMessage, lines 887-902: the handler runs for a logged-in connection;
\* the model keeps one message handler per connection in flight.
SendEnabled(sid) ==
  /\ conn[sid] = "open"
  /\ currentUser[sid] # NoUser
  /\ msgFrame[sid].pc = "idle"

\* the mute check at line 898, both clock readings being now
Gate(sid) == checkMuted(mutedUsers, currentUser[sid], now, now)

\* the state after a mute check that let the message through
Passed(sid) == [World EXCEPT !.mutedUsers = Gate(sid).map]

\* sendMessage without the branch of lines 907-909: every result goes to the room
ResultEmitsAll(w, sid, type) ==
  {Emit("callback", "one", {sid}, "success"),
   Emit("systemMessage", "all", {}, type)}

\* lines 907-909 and 941-947: what sendMessage does with a command's result
ResultEmits(w, sid, type) ==
  {Emit("callback", "one", {sid}, "success")} \cup
  (IF type \in {"error", "private"}
     THEN {Emit("systemMessage", "one", {sid}, type)}
     ELSE {Emit("systemMessage", "all", {}, type)})

\* lines 898-902: the sender is muted.  t2 is the second clock reading.
SendMuted(sid, t2) ==
  LET mc == checkMuted(mutedUsers, currentUser[sid], now, t2)
  IN /\ SendEnabled(sid)
     /\ mc.muted
     /\ Commit([World EXCEPT !.mutedUsers = mc.map,
                             !.out = {Emit("systemMessage", "one", {sid}, "muted"),
                                      Emit("callback", "one", {sid}, "failure")}])
     /\ last' = LastN("sendMessage", sid, "any", currentUser[sid], "muted", mc.remaining)
     /\ UNCHANGED <<currentUser, dbMessages, dbIpBans, dbPrivate, now, nextId,
                    loginFrame, msgFrame>>

\* A command that processCommand finishes without a store call: the handler
\* runs from line 893 to its return in one stretch.
SyncCommand(sid, cmd, target, r, num) ==
  /\ Commit([r.w EXCEPT !.out = @ \cup ResultEmits(r.w, sid, r.type)])
  /\ last' = LastN("sendMessage", sid, cmd, target, r.type, num)
  /\ UNCHANGED <<currentUser, dbMessages, dbIpBans, dbPrivate, now, nextId, loginFrame, msgFrame>>

\* the step before was the successful /ban of target, which was not banned
FreshBan(target) ==
  /\ last.cmd = "/ban"
  /\ last.result = "system"
  /\ last.target = target
  /\ last.num = 0

SendMute(sid, target, secs) ==
  /\ SendEnabled(sid)
  /\ ~Gate(sid).muted
  /\ SyncCommand(sid, "/mute", target,
                 CmdMute(Passed(sid), currentUser[sid], sid \in adminUsers,
                         target, secs, now), secs)

SendUnmute(sid, target) ==
  /\ SendEnabled(sid)
  /\ ~Gate(sid).muted
  /\ SyncCommand(sid, "/unmute", target,
                 CmdUnmute(Passed(sid), currentUser[sid], sid \in adminUsers, target), 0)

SendBan(sid, target, syncSet) ==
  /\ SendEnabled(sid)
  /\ ~Gate(sid).muted
  /\ SyncCommand(sid, "/ban", target,
                 CmdBan(Passed(sid), currentUser[sid], sid \in adminUsers,
                        target, syncSet),
                 IF target \in bannedUsers THEN 1 ELSE 0)

SendUnban(sid, target) ==
  /\ SendEnabled(sid)
  /\ ~Gate(sid).muted
  /\ SyncCommand(sid, "/unban", target,
                 CmdUnban(Passed(sid), currentUser[sid], sid \in adminUsers, target),
                 IF FreshBan(target) THEN 1 ELSE 0)

\* Lines 951-963, up to the await of db.addMessage inside
\* addMessageToStorage: the line is appended to the ring with its text.
\* line is the slash line sent, NoUser for a line that is no slash line.
SendPlain(sid, text, line) ==
  LET m == Message(nextId + 1, currentUser[sid], sid \in adminUsers, text)
  IN /\ SendEnabled(sid)
     /\ ~Gate(sid).muted
     /\ nextId < MaxIds
     /\ nextId' = nextId + 1
     /\ Commit([Passed(sid) EXCEPT !.messages = addMessageToStorage(@, m)])
     /\ msgFrame' = [msgFrame EXCEPT ![sid] =
                       [IdleMsg EXCEPT !.pc = "plain", !.id = m.id, !.user = m.user,
                                       !.admin = m.admin, !.arg = text]]
     /\ last' = LastN("sendMessage", sid, "chat", line, "suspended", m.id)
     /\ UNCHANGED <<currentUser, dbMessages, dbIpBans, dbPrivate, now, loginFrame>>

\* A plain chat line: data.message does not start with '/' (line 904)
SendChat(sid) == SendPlain(sid, "t0", NoUser)

\* the one-token slash lines sent, one the table does not know and two it does
SlashLines == {"/Foo", "/unmute", "/UNMUTE"}

\* String.prototype.toLowerCase on these lines
ToLower(token) ==
  CASE token = "/Foo" -> "/foo"
    [] token = "/UNMUTE" -> "/unmute"
    [] OTHER -> token

\* the case labels of the switch in processCommand (lines 129-462); the three
\* labels in Japanese script (lines 244, 330, 345) are written "/ip-ban-ja",
\* "/ip-unban-ja" and "/ip-banlist-ja"
CommandTable ==
  {"/delete", "/mute", "/unmute", "/ban", "/unban", "/ip-ban-ja", "/ipban",
   "/ip-unban-ja", "/ipunban", "/ip-banlist-ja", "/ipbanlist", "/prm", "/omi",
   "/omikuji", "/color", "/dice", "/coin", "/help"}

NoHandler == "null"

\* a switch whose default falls into the case of /unmute
HandlerWithoutDefault(token) ==
  IF ToLower(token) \in CommandTable THEN ToLower(token) ELSE "/unmute"

\* lines 125-129 and 478-480: parts[0].toLowerCase() selects the case; the
\* default returns null
Handler(token) ==
  IF ToLower(token) \in CommandTable THEN ToLower(token) ELSE NoHandler

\* A line that starts with '/' and has one token (lines 904-906): a line the
\* table does not know gets no result and goes on as a chat line (line 951);
\* /unmute without an argument returns its error.
SendSlash(sid, token) ==
  /\ token \in SlashLines
  /\ IF Handler(token) = NoHandler
       THEN SendPlain(sid, token, token)
       ELSE /\ Handler(token) = "/unmute"
            /\ SendEnabled(sid)
            /\ ~Gate(sid).muted
            /\ SyncCommand(sid, "/unmute", token,
                           CmdUnmute(Passed(sid), currentUser[sid], sid \in adminUsers,
                                     NoArg), 0)

\* db.addMessage returned (persisted or not): lines 964-965.
ChatStored(sid, persisted) ==
  LET f == msgFrame[sid]
  IN /\ f.pc = "plain"
     /\ dbMessages' = IF persisted
                        THEN dbAddMessage(dbMessages, Message(f.id, f.user, f.admin, f.arg))
                        ELSE dbMessages
     /\ out' = {Emit("message", "all", {}, f.user),
                Emit("callback", "one", {sid}, "success")}
     /\ msgFrame' = [msgFrame EXCEPT ![sid] = IdleMsg]
     /\ last' = LastN("sendMessage", sid, "chat", NoUser, "success", f.id)
     /\ UNCHANGED <<conn, currentUser, userSockets, onlineUsers, adminUsers, mutedUsers,
                    bannedUsers, userStatusMap, userIpMap, messages, dbIpBans, dbPrivate, now,
                    nextId, loginFrame>>

\* /omi, /dice, /coin: a command_result; lines 910-923, up to the await inside
\* the first addMessageToStorage.
SendGame(sid) ==
  LET m == Message(nextId + 1, currentUser[sid], sid \in adminUsers, "t0")
  IN /\ SendEnabled(sid)
     /\ ~Gate(sid).muted
     /\ nextId + 1 < MaxIds
     /\ nextId' = nextId + 1
     /\ Commit([Passed(sid) EXCEPT !.messages = addMessageToStorage(@, m)])
     /\ msgFrame' = [msgFrame EXCEPT ![sid] =
                       [IdleMsg EXCEPT !.pc = "cr1", !.id = m.id, !.user = m.user,
                                       !.admin = m.admin]]
     /\ last' = LastN("sendMessage", sid, "/game", NoUser, "suspended", m.id)
     /\ UNCHANGED <<currentUser, dbMessages, dbIpBans, dbPrivate, now, loginFrame>>

\* the fortunes table, lines 86-97; the labels, in Japanese script in the
\* source, are written in Latin letters
fortunes ==
  << [result |-> "daikichi", weight |-> 8],
     [result |-> "chukichi", weight |-> 12],
     [result |-> "shokichi", weight |-> 20],
     [result |-> "kichi", weight |-> 15],
     [result |-> "kyo", weight |-> 20],
     [result |-> "daikyo", weight |-> 15],
     [result |-> "arere", weight |-> 3],
     [result |-> "gokudaikichi", weight |-> 3],
     [result |-> "miracle", weight |-> 1],
     [result |-> "???", weight |-> 3] >>

\* fortunes.reduce((sum, f) => sum + f.weight, 0), line 100
RECURSIVE SumWeights(_)
SumWeights(n) == IF n = 0 THEN 0 ELSE SumWeights(n - 1) + fortunes[n].weight
totalWeight == SumWeights(Len(fortunes))

\* Math.random() * totalWeight (line 101) is a real in [0, totalWeight); the
\* model draws it in steps of 1 / Den and counts in units of 1 / Den.
Den == 2
Draws == 0..(totalWeight * Den - 1)

\* the loop of drawFortune with < 0 for <= 0
RECURSIVE drawLoopStrict(_, _)
drawLoopStrict(i, random) ==
  IF i > Len(fortunes) THEN [result |-> fortunes[1].result, fallback |-> TRUE]
  ELSE LET rest == random - fortunes[i].weight * Den
       IN IF rest < 0 THEN [result |-> fortunes[i].result, fallback |-> FALSE]
                      ELSE drawLoopStrict(i + 1, rest)

\* lines 102-108: the loop of drawFortune and the return after it
RECURSIVE drawLoop(_, _)
drawLoop(i, random) ==
  IF i > Len(fortunes) THEN [result |-> fortunes[1].result, fallback |-> TRUE]
  ELSE LET rest == random - fortunes[i].weight * Den
       IN IF rest <= 0 THEN [result |-> fortunes[i].result, fallback |-> FALSE]
                       ELSE drawLoop(i + 1, rest)

\* drawFortune, lines 99-109, for the draw r
drawFortune(r) == drawLoop(1, r)

\* case '/omi' (lines 420-429) and lines 910-923, up to the await inside the
\* first addMessageToStorage: the fortune is drawn, the invoker's line pushed.
SendOmi(sid, r) ==
  LET m == Message(nextId + 1, currentUser[sid], sid \in adminUsers, "t0")
      fortune == drawFortune(r)
  IN /\ SendEnabled(sid)
     /\ ~Gate(sid).muted
     /\ r \in Draws
     /\ nextId + 1 < MaxIds
     /\ nextId' = nextId + 1
     /\ Commit([Passed(sid) EXCEPT !.messages = addMessageToStorage(@, m)])
     /\ msgFrame' = [msgFrame EXCEPT ![sid] =
                       [IdleMsg EXCEPT !.pc = "cr1", !.id = m.id, !.user = m.user,
                                       !.admin = m.admin]]
     /\ last' = LastN("sendMessage", sid, "/omi", fortune.result,
                      IF fortune.fallback THEN "fallback" ELSE "suspended", r)
     /\ UNCHANGED <<currentUser, dbMessages, dbIpBans, dbPrivate, now, loginFrame>>

\* lines 924-937: the invoker's line is broadcast, the result line is built and
\* pushed, up to the await inside the second addMessageToStorage.
GameFirstStored(sid, persisted) ==
  LET f == msgFrame[sid]
      m2 == Message(nextId + 1, "game", FALSE, "t0")
  IN /\ f.pc = "cr1"
     /\ dbMessages' = IF persisted
                        THEN dbAddMessage(dbMessages, Message(f.id, f.user, f.admin, "t0"))
                        ELSE dbMessages
     /\ nextId' = nextId + 1
     /\ messages' = addMessageToStorage(messages, m2)
     /\ out' = {Emit("message", "all", {}, f.user)}
     /\ msgFrame' = [msgFrame EXCEPT ![sid] = [f EXCEPT !.pc = "cr2", !.id = m2.id]]
     /\ last' = LastN("sendMessage", sid, "/game", NoUser, "suspended", m2.id)
     /\ UNCHANGED <<conn, currentUser, userSockets, onlineUsers, adminUsers, mutedUsers,
                    bannedUsers, userStatusMap, userIpMap, dbIpBans, dbPrivate, now, loginFrame>>

\* lines 938-940
GameSecondStored(sid, persisted) ==
  LET f == msgFrame[sid]
  IN /\ f.pc = "cr2"
     /\ dbMessages' = IF persisted
                        THEN dbAddMessage(dbMessages, Message(f.id, "game", FALSE, "t0"))
                        ELSE dbMessages
     /\ out' = {Emit("message", "all", {}, "game"),
                Emit("callback", "one", {sid}, "success")}
     /\ msgFrame' = [msgFrame EXCEPT ![sid] = IdleMsg]
     /\ last' = LastN("sendMessage", sid, "/game", NoUser, "command_result", f.id)
     /\ UNCHANGED <<conn, currentUser, userSockets, onlineUsers, adminUsers, mutedUsers,
                    bannedUsers, userStatusMap, userIpMap, messages, dbIpBans, dbPrivate, now,
                    nextId, loginFrame>>

\* case '/delete' (lines 130-135): refused, or the ring is emptied and the
\* handler waits for db.deleteAllMessages.
SendDelete(sid) ==
  /\ SendEnabled(sid)
  /\ ~Gate(sid).muted
  /\ IF sid \in adminUsers
       THEN /\ Commit([Passed(sid) EXCEPT !.messages = << >>])
            /\ msgFrame' = [msgFrame EXCEPT ![sid] = [IdleMsg EXCEPT !.pc = "delete"]]
            /\ last' = Last("sendMessage", sid, "/delete", NoUser, "suspended")
       ELSE /\ Commit([Passed(sid) EXCEPT !.out = ResultEmits(World, sid, "error")])
            /\ msgFrame' = msgFrame
            /\ last' = Last("sendMessage", sid, "/delete", NoUser, "error")
  /\ UNCHANGED <<currentUser, dbMessages, dbIpBans, dbPrivate, now, nextId, loginFrame>>

\* db.deleteAllMessages returned: lines 136-137 and 945-946.
DeleteDone(sid) ==
  /\ msgFrame[sid].pc = "delete"
  /\ dbMessages' = << >>
  /\ out' = {Emit("allMessagesDeleted", "all", {}, "")}
            \cup ResultEmits(World, sid, "system")
  /\ msgFrame' = [msgFrame EXCEPT ![sid] = IdleMsg]
  /\ last' = Last("sendMessage", sid, "/delete", NoUser, "system")
  /\ UNCHANGED <<conn, currentUser, userSockets, onlineUsers, adminUsers, mutedUsers,
                 bannedUsers, userStatusMap, userIpMap, messages, dbIpBans, dbPrivate, now,
                 nextId, loginFrame>>

\* case '/color' (lines 431-435), up to the await of db.updateUser.  valid
\* tells that args[0] is a colour code, known that users[username] exists
\* (users is what the store held at startup, lines 1081-1082).
SendColor(sid, valid, known) ==
  /\ SendEnabled(sid)
  /\ ~Gate(sid).muted
  /\ IF valid /\ known
       THEN /\ Commit(Passed(sid))
            /\ msgFrame' = [msgFrame EXCEPT ![sid] =
                  [IdleMsg EXCEPT !.pc = "color", !.user = currentUser[sid]]]
            /\ last' = Last("sendMessage", sid, "/color", NoUser, "suspended")
       ELSE /\ Commit([Passed(sid) EXCEPT !.out = ResultEmits(Passed(sid), sid, "error")])
            /\ msgFrame' = msgFrame
            /\ last' = Last("sendMessage", sid, "/color", NoUser, "error")
  /\ UNCHANGED <<currentUser, dbMessages, dbIpBans, dbPrivate, now, nextId, loginFrame>>

\* db.updateUser returned: socket.emit('profileUpdated') and the result of
\* type 'system' (lines 436-437), which sendMessage hands on at lines 944-946.
ColorStored(sid) ==
  /\ msgFrame[sid].pc = "color"
  /\ out' = {Emit("profileUpdated", "one", {sid}, msgFrame[sid].user)}
             \cup ResultEmits(World, sid, "system")
  /\ msgFrame' = [msgFrame EXCEPT ![sid] = IdleMsg]
  /\ last' = Last("sendMessage", sid, "/color", NoUser, "system")
  /\ UNCHANGED <<conn, currentUser, userSockets, onlineUsers, adminUsers, mutedUsers,
                 bannedUsers, userStatusMap, userIpMap, messages, dbMessages, dbIpBans,
                 dbPrivate, now, nextId, loginFrame>>

\* A store call of the sendMessage handler throws: the catch at lines 966-969.
SendThrow(sid) ==
  /\ msgFrame[sid].pc \in {"plain", "cr1", "cr2", "delete", "ipban", "ipunban",
                           "ipbanlist", "prm", "color"}
  /\ out' = {Emit("callback", "one", {sid}, "failure")}
  /\ msgFrame' = [msgFrame EXCEPT ![sid] = IdleMsg]
  /\ last' = Last("sendMessage", sid, "any", NoUser, "thrown")
  /\ UNCHANGED <<conn, currentUser, userSockets, onlineUsers, adminUsers, mutedUsers,
                 bannedUsers, userStatusMap, userIpMap, messages, dbMessages, dbIpBans, dbPrivate,
                 now, nextId, loginFrame>>

\* ------------------------------------------------------------------ IP bans

\* lines 258-266: the first userIpMap entry with the literal address decides.
\* The Map's iteration order is its insertion order, which the model does not
\* keep: any entry with that address may be the first.
FirstWithIp(w, ip) == {n \in DOMAIN w.userIpMap : w.userIpMap[n] = ip}

\* case '/ipban' (lines 244-303), up to the await of db.addIpBan.  arg is a
\* literal address or a name; first is the userIpMap entry the loop meets
\* first (NoUser: no entry has the address).
SendIpBan(sid, arg, first) ==
  LET w == Passed(sid)
      username == currentUser[sid]
      refuse == /\ Commit([w EXCEPT !.out = ResultEmits(w, sid, "error")])
                /\ msgFrame' = msgFrame
                /\ last' = Last("sendMessage", sid, "/ipban", arg, "error")
      suspend(aff) ==
                /\ Commit(w)
                /\ msgFrame' = [msgFrame EXCEPT ![sid] =
                      [IdleMsg EXCEPT !.pc = "ipban", !.user = username,
                         !.arg = IF arg \in Ips THEN arg ELSE w.userIpMap[arg],
                         !.aff = aff]]
                /\ last' = Last("sendMessage", sid, "/ipban", arg, "suspended")
  IN /\ SendEnabled(sid)
     /\ ~Gate(sid).muted
     /\ arg \in Ips \cup Targets
     /\ IF arg \in Ips
          THEN IF FirstWithIp(w, arg) = {} THEN first = NoUser
               ELSE first \in FirstWithIp(w, arg)
          ELSE first = NoUser
     /\ IF username \notin ADMIN_USERS THEN refuse
        ELSE IF arg = NoArg THEN refuse
        ELSE IF arg \in Ips
          THEN IF first # NoUser /\ first \in ADMIN_USERS THEN refuse
               ELSE suspend(first)
        ELSE IF ~MapHas(w.userIpMap, arg) THEN refuse
        ELSE IF arg \in ADMIN_USERS THEN refuse
        ELSE suspend(arg)
     /\ UNCHANGED <<currentUser, dbMessages, dbIpBans, dbPrivate, now, nextId, loginFrame>>

\* lines 270-292 and 305-327: the affected identity, if present, is removed
IpBanEffect(w, aff, syncSet) ==
  LET w1 == KickLoop(w, w.userSockets[aff], syncSet, "ipban")
      w2 == [w1 EXCEPT !.userSockets = MapDelete(@, aff),
                       !.userStatusMap = MapDelete(@, aff),
                       !.userIpMap = MapDelete(@, aff)]
      w3 == [w2 EXCEPT !.out = @ \cup {Emit("userLeft", "all", {}, aff)}]
  IN [w3 EXCEPT !.out = @ \cup broadcastUserIpList(w3)]

\* db.addIpBan returned: lines 270-293 (305-328), then lines 945-946.
IpBanStored(sid, syncSet) ==
  LET f == msgFrame[sid]
      w == IF f.aff # NoUser /\ MapHas(userSockets, f.aff)
             THEN IpBanEffect(World, f.aff, syncSet)
             ELSE World
  IN /\ f.pc = "ipban"
     /\ syncSet \subseteq (IF f.aff # NoUser /\ MapHas(userSockets, f.aff)
                             THEN userSockets[f.aff] ELSE {})
     /\ dbIpBans' = dbIpBans \cup {f.arg}
     /\ Commit([w EXCEPT !.out = @ \cup ResultEmits(w, sid, "system")])
     /\ msgFrame' = [msgFrame EXCEPT ![sid] = IdleMsg]
     /\ last' = Last("sendMessage", sid, "/ipban", f.aff, "system")
     /\ UNCHANGED <<currentUser, dbMessages, dbPrivate, now, nextId, loginFrame>>

\* case '/ipunban' (lines 330-338), up to the await of db.removeIpBan
SendIpUnban(sid, ip) ==
  LET w == Passed(sid)
  IN /\ SendEnabled(sid)
     /\ ~Gate(sid).muted
     /\ ip \in Ips \cup {NoArg}
     /\ IF currentUser[sid] \notin ADMIN_USERS \/ ip = NoArg
          THEN /\ Commit([w EXCEPT !.out = ResultEmits(w, sid, "error")])
               /\ msgFrame' = msgFrame
               /\ last' = Last("sendMessage", sid, "/ipunban", ip, "error")
          ELSE /\ Commit(w)
               /\ msgFrame' = [msgFrame EXCEPT ![sid] =
                                 [IdleMsg EXCEPT !.pc = "ipunban", !.arg = ip]]
               /\ last' = Last("sendMessage", sid, "/ipunban", ip, "suspended")
     /\ UNCHANGED <<currentUser, dbMessages, dbIpBans, dbPrivate, now, nextId, loginFrame>>

\* db.removeIpBan returned whether the address was banned: lines 339-343
IpUnbanDone(sid) ==
  LET f == msgFrame[sid]
      type == IF f.arg \in dbIpBans THEN "system" ELSE "error"
  IN /\ f.pc = "ipunban"
     /\ dbIpBans' = dbIpBans \ {f.arg}
     /\ out' = ResultEmits(World, sid, type)
     /\ msgFrame' = [msgFrame EXCEPT ![sid] = IdleMsg]
     /\ last' = Last("sendMessage", sid, "/ipunban", f.arg, type)
     /\ UNCHANGED <<conn, currentUser, userSockets, onlineUsers, adminUsers, mutedUsers,
                    bannedUsers, userStatusMap, userIpMap, messages, dbMessages,
                    dbPrivate, now, nextId, loginFrame>>

\* case '/ipbanlist' (lines 345-350), up to the await of db.getAllIpBans
SendIpBanList(sid) ==
  LET w == Passed(sid)
  IN /\ SendEnabled(sid)
     /\ ~Gate(sid).muted
     /\ IF currentUser[sid] \notin ADMIN_USERS
          THEN /\ Commit([w EXCEPT !.out = ResultEmits(w, sid, "error")])
               /\ msgFrame' = msgFrame
               /\ last' = Last("sendMessage", sid, "/ipbanlist", NoUser, "error")
          ELSE /\ Commit(w)
               /\ msgFrame' = [msgFrame EXCEPT ![sid] =
                                 [IdleMsg EXCEPT !.pc = "ipbanlist"]]
               /\ last' = Last("sendMessage", sid, "/ipbanlist", NoUser, "suspended")
     /\ UNCHANGED <<currentUser, dbMessages, dbIpBans, dbPrivate, now, nextId, loginFrame>>

\* db.getAllIpBans returned: lines 351-355, then lines 945-946
IpBanListDone(sid) ==
  /\ msgFrame[sid].pc = "ipbanlist"
  /\ out' = ResultEmits(World, sid, "system")
  /\ msgFrame' = [msgFrame EXCEPT ![sid] = IdleMsg]
  /\ last' = Last("sendMessage", sid, "/ipbanlist", NoUser, "system")
  /\ UNCHANGED <<conn, currentUser, userSockets, onlineUsers, adminUsers, mutedUsers,
                 bannedUsers, userStatusMap, userIpMap, messages, dbMessages, dbIpBans, dbPrivate,
                 now, nextId, loginFrame>>

\* ------------------------------------------------------------------ private messages

\* A private message as the store keeps it ("t0" as sent, "t1" once edited).
PrivateMessage(id, from, to) == [id |-> id, from |-> from, to |-> to, text |-> "t0"]

\* db.getPrivateMessageById(id) finds a message
IsPrivateId(pms, id) == \E pm \in pms : pm.id = id

\* case '/prm', lines 358-368: the checks before anything is stored
PrmCheckNoSelf(w, username, prmTarget) ==
  IF prmTarget = NoArg THEN "error"
  ELSE IF ~MapHas(w.userSockets, prmTarget) THEN "error"
  ELSE "ok"

PrmCheck(w, username, prmTarget) ==
  IF prmTarget = NoArg THEN "error"
  ELSE IF ~MapHas(w.userSockets, prmTarget) THEN "error"
  ELSE IF prmTarget = username THEN "error"
  ELSE "ok"

\* case '/prm' (lines 357-380), up to the await of db.addPrivateMessage
SendPrm(sid, prmTarget) ==
  LET w == Passed(sid)
      username == currentUser[sid]
  IN /\ SendEnabled(sid)
     /\ ~Gate(sid).muted
     /\ IF PrmCheck(w, username, prmTarget) = "error"
          THEN /\ Commit([w EXCEPT !.out = ResultEmits(w, sid, "error")])
               /\ msgFrame' = msgFrame
               /\ nextId' = nextId
               /\ last' = Last("sendMessage", sid, "/prm", prmTarget, "error")
          ELSE /\ nextId < MaxIds
               /\ Commit(w)
               /\ nextId' = nextId + 1
               /\ msgFrame' = [msgFrame EXCEPT ![sid] =
                     [IdleMsg EXCEPT !.pc = "prm", !.id = nextId + 1,
                                     !.user = username, !.arg = prmTarget]]
               /\ last' = LastN("sendMessage", sid, "/prm", prmTarget, "suspended",
                                nextId + 1)
     /\ UNCHANGED <<currentUser, dbMessages, dbIpBans, dbPrivate, now, loginFrame>>

\* lines 391-416: privateMessage to the sockets registered for the recipient,
\* privateMessageMonitor to the sockets registered for the names of
\* ADMIN_USERS, privateMessageSent to the sender's socket
PrmEmits(w, sid, prmTarget) ==
  {Emit("privateMessage", "one", {s}, prmTarget) :
     s \in w.userSockets[prmTarget] \cap Namespace(w.conn)}
  \cup {Emit("privateMessageMonitor", "one", {s}, prmTarget) :
          s \in UNION {w.userSockets[a] : a \in ADMIN_USERS \cap DOMAIN w.userSockets}
                 \cap Namespace(w.conn)}
  \cup {Emit("privateMessageSent", "one", {sid}, prmTarget)}

\* db.addPrivateMessage returned: lines 382-418, then lines 941-943.  The
\* loop over userSockets.get(prmTarget) throws when the recipient has left the
\* registry meanwhile; the catch of sendMessage (lines 966-969) answers.
PrmStored(sid) ==
  LET f == msgFrame[sid]
      gone == ~MapHas(userSockets, f.arg)
  IN /\ f.pc = "prm"
     /\ dbPrivate' = dbPrivate \cup {PrivateMessage(f.id, f.user, f.arg)}
     /\ out' = IF gone
                 THEN {Emit("callback", "one", {sid}, "failure")}
                 ELSE PrmEmits(World, sid, f.arg) \cup ResultEmits(World, sid, "private")
     /\ msgFrame' = [msgFrame EXCEPT ![sid] = IdleMsg]
     /\ last' = LastN("sendMessage", sid, "/prm", f.arg,
                      IF gone THEN "thrown" ELSE "private", f.id)
     /\ UNCHANGED <<conn, currentUser, userSockets, onlineUsers, adminUsers, mutedUsers,
                    bannedUsers, userStatusMap, userIpMap, messages, dbMessages, dbIpBans,
                    now, nextId, loginFrame>>

\* db.updatePrivateMessage(id, newMessage, isPrivilegedAdmin) and
\* db.deletePrivateMessage(id, isPrivilegedAdmin): the store lets the
\* original sender change the message; the call does not name the caller, so
\* the request of any other identity is the same request.
dbMayMutatePrivate(pms, id, isPrivilegedAdmin) == IsPrivateId(pms, id)

\* editMessage / deleteMessage of a private message, lines 972-980
\* (1004-1012): db.getPrivateMessageById finds the message, up to the await
\* of db.updatePrivateMessage (db.deletePrivateMessage).
PrivateMutateStart(sid, op, id) ==
  /\ conn[sid] = "open"
  /\ currentUser[sid] # NoUser
  /\ msgFrame[sid].pc = "idle"
  /\ IsPrivateId(dbPrivate, id)
  /\ op \in {"editPm", "removePm"}
  /\ msgFrame' = [msgFrame EXCEPT ![sid] =
                    [IdleMsg EXCEPT !.pc = op, !.id = id, !.user = currentUser[sid],
                                    !.admin = sid \in adminUsers]]
  /\ out' = {}
  /\ last' = LastN(op, sid, "", NoUser, "suspended", id)
  /\ UNCHANGED <<conn, currentUser, userSockets, onlineUsers, adminUsers, mutedUsers,
                 bannedUsers, userStatusMap, userIpMap, messages, dbMessages, dbIpBans,
                 dbPrivate, now, nextId, loginFrame>>

\* db.updatePrivateMessage returned: lines 981-985
PrivateEditReturned(sid) ==
  LET f == msgFrame[sid]
      ok == dbMayMutatePrivate(dbPrivate, f.id, f.user \in ADMIN_USERS)
  IN /\ f.pc = "editPm"
     /\ dbPrivate' = IF ok
                       THEN {IF pm.id = f.id THEN [pm EXCEPT !.text = "t1"] ELSE pm :
                               pm \in dbPrivate}
                       ELSE dbPrivate
     /\ out' = IF ok THEN {Emit("privateMessageEdited", "all", {}, ""),
                           Emit("callback", "one", {sid}, "success")}
                     ELSE {Emit("callback", "one", {sid}, "failure")}
     /\ msgFrame' = [msgFrame EXCEPT ![sid] = IdleMsg]
     /\ last' = LastN("editPm", sid, "", f.user, IF ok THEN "success" ELSE "rejected", f.id)
     /\ UNCHANGED <<conn, currentUser, userSockets, onlineUsers, adminUsers, mutedUsers,
                    bannedUsers, userStatusMap, userIpMap, messages, dbMessages, dbIpBans,
                    now, nextId, loginFrame>>

\* db.deletePrivateMessage returned: lines 1013-1017
PrivateRemoveReturned(sid) ==
  LET f == msgFrame[sid]
      ok == dbMayMutatePrivate(dbPrivate, f.id, f.user \in ADMIN_USERS)
  IN /\ f.pc = "removePm"
     /\ dbPrivate' = IF ok THEN {pm \in dbPrivate : pm.id # f.id} ELSE dbPrivate
     /\ out' = IF ok THEN {Emit("privateMessageDeleted", "all", {}, ""),
                           Emit("callback", "one", {sid}, "success")}
                     ELSE {Emit("callback", "one", {sid}, "failure")}
     /\ msgFrame' = [msgFrame EXCEPT ![sid] = IdleMsg]
     /\ last' = LastN("removePm", sid, "", f.user, IF ok THEN "success" ELSE "rejected",
                      f.id)
     /\ UNCHANGED <<conn, currentUser, userSockets, onlineUsers, adminUsers, mutedUsers,
                    bannedUsers, userStatusMap, userIpMap, messages, dbMessages, dbIpBans,
                    now, nextId, loginFrame>>

\* ------------------------------------------------------------------ editMessage / deleteMessage

\* editMessage / deleteMessage of a room message, lines 972-988 (1004-1020),
\* up to the await of db.updateMessage (db.deleteMessage).  The lookup
\* db.getPrivateMessageById before it finds no private message with the id.
MutateStart(sid, op, id) ==
  /\ conn[sid] = "open"
  /\ currentUser[sid] # NoUser
  /\ msgFrame[sid].pc = "idle"
  /\ ~IsPrivateId(dbPrivate, id)
  /\ op \in {"edit", "remove"}
  /\ msgFrame' = [msgFrame EXCEPT ![sid] =
                    [IdleMsg EXCEPT !.pc = op, !.id = id, !.user = currentUser[sid],
                                    !.admin = sid \in adminUsers]]
  /\ out' = {}
  /\ last' = LastN(op, sid, "", NoUser, "suspended", id)
  /\ UNCHANGED <<conn, currentUser, userSockets, onlineUsers, adminUsers, mutedUsers,
                 bannedUsers, userStatusMap, userIpMap, messages, dbMessages, dbIpBans, dbPrivate,
                 now, nextId, loginFrame>>

\* the answer of editMessage / deleteMessage without the test of the store's
\* result: the event is broadcast in any case
MutationEmitsUnchecked(sid, ev, ok) ==
  {Emit(ev, "all", {}, ""), Emit("callback", "one", {sid}, "success")}

\* lines 989-991 and 1000-1001 (1021-1023 and 1030-1031): a failure to the
\* actor when the store refused, else the event to the room and a success
MutationEmits(sid, ev, ok) ==
  IF ok THEN {Emit(ev, "all", {}, ""), Emit("callback", "one", {sid}, "success")}
        ELSE {Emit("callback", "one", {sid}, "failure")}

\* db.updateMessage returned: lines 989-1001
EditReturned(sid) ==
  LET f == msgFrame[sid]
      ok == dbMayMutate(dbMessages, f.id, f.user, f.admin, f.user \in ADMIN_USERS)
  IN /\ f.pc = "edit"
     /\ dbMessages' = IF ok THEN EditInRing(dbMessages, f.id) ELSE dbMessages
     /\ messages' = IF ok THEN EditInRing(messages, f.id) ELSE messages
     /\ out' = MutationEmits(sid, "messageEdited", ok)
     /\ msgFrame' = [msgFrame EXCEPT ![sid] = IdleMsg]
     /\ last' = LastN("edit", sid, "", NoUser, IF ok THEN "success" ELSE "rejected", f.id)
     /\ UNCHANGED <<conn, currentUser, userSockets, onlineUsers, adminUsers, mutedUsers,
                    bannedUsers, userStatusMap, userIpMap, dbIpBans, dbPrivate, now, nextId,
                    loginFrame>>

\* db.deleteMessage returned: lines 1021-1031
RemoveReturned(sid) ==
  LET f == msgFrame[sid]
      ok == dbMayMutate(dbMessages, f.id, f.user, f.admin, f.user \in ADMIN_USERS)
  IN /\ f.pc = "remove"
     /\ dbMessages' = IF ok THEN DeleteFromRing(dbMessages, f.id) ELSE dbMessages
     /\ messages' = IF ok THEN DeleteFromRing(messages, f.id) ELSE messages
     /\ out' = MutationEmits(sid, "messageDeleted", ok)
     /\ msgFrame' = [msgFrame EXCEPT ![sid] = IdleMsg]
     /\ last' = LastN("remove", sid, "", NoUser, IF ok THEN "success" ELSE "rejected", f.id)
     /\ UNCHANGED <<conn, currentUser, userSockets, onlineUsers, adminUsers, mutedUsers,
                    bannedUsers, userStatusMap, userIpMap, dbIpBans, dbPrivate, now, nextId,
                    loginFrame>>

\* A store call of editMessage or deleteMessage throws (lines 978-988,
\* 1010-1020): the handlers have no try, the promise of the handler is
\* rejected and the listener of line 1125 logs it; the callback is not called.
MutateThrow(sid) ==
  /\ msgFrame[sid].pc \in {"edit", "remove", "editPm", "removePm"}
  /\ out' = {}
  /\ msgFrame' = [msgFrame EXCEPT ![sid] = IdleMsg]
  /\ last' = LastN(msgFrame[sid].pc, sid, "", NoUser, "thrown", msgFrame[sid].id)
  /\ UNCHANGED <<conn, currentUser, userSockets, onlineUsers, adminUsers, mutedUsers,
                 bannedUsers, userStatusMap, userIpMap, messages, dbMessages, dbIpBans,
                 dbPrivate, now, nextId, loginFrame>>

\* ------------------------------------------------------------------ clock

\* Time passes: the clock moves to a later instant.
Tick(t) ==
  /\ t \in Instants
  /\ t > now
  /\ now' = t
  /\ out' = {}
  /\ last' = Last("tick", 0, "", NoUser, "ok")
  /\ UNCHANGED <<conn, currentUser, userSockets, onlineUsers, adminUsers, mutedUsers,
                 bannedUsers, userStatusMap, userIpMap, messages, dbMessages, dbIpBans, dbPrivate,
                 nextId, loginFrame, msgFrame>>

\* ------------------------------------------------------------------ specification

\* The server after startServer(): nobody connected, empty maps, the ring
\* loaded from an empty store.
Init ==
  /\ conn = [s \in Sids |-> "new"]
  /\ currentUser = [s \in Sids |-> NoUser]
  /\ userSockets = EmptyMap
  /\ onlineUsers = EmptyMap
  /\ adminUsers = {}
  /\ mutedUsers = EmptyMap
  /\ bannedUsers = {}
  /\ userStatusMap = EmptyMap
  /\ userIpMap = EmptyMap
  /\ messages = << >>
  /\ dbMessages = << >>
  /\ dbIpBans = {}
  /\ dbPrivate = {}
  /\ now = 0
  /\ nextId = 0
  /\ loginFrame = [s \in Sids |-> IdleLogin]
  /\ msgFrame = [s \in Sids |-> IdleMsg]
  /\ out = {}
  /\ last = Last("init", 0, "", NoUser, "ok")

\* A client that may do anything with its connection: log in with or without
\* the admin password, by account or by token, again while logged in, log out,
\* leave; its store calls may fail.
RichClient(sid) ==
  \/ Connect(sid)
  \/ Disconnect(sid)
  \/ \E kind \in {"account", "token"}, grant, bad \in BOOLEAN :
        LoginStart(sid, kind, grant, bad)
  \/ \E success, isAdmin \in BOOLEAN, name \in Names :
        LoginReturned(sid, success, name, isAdmin)
  \/ LoginIpSaved(sid)
  \/ \E fresh \in BOOLEAN : LoginGotMessages(sid, fresh)
  \/ LoginDone(sid)
  \/ LoginThrow(sid)
  \/ AccountLogout(sid)

\* A client that logs in by token when it is not logged in, and leaves.
SimpleClient(sid) ==
  \/ Connect(sid)
  \/ Disconnect(sid)
  \/ (currentUser[sid] = NoUser /\ LoginStart(sid, "token", FALSE, FALSE))
  \/ \E isAdmin \in BOOLEAN, name \in Names : LoginReturned(sid, TRUE, name, isAdmin)
  \/ LoginIpSaved(sid)
  \/ LoginGotMessages(sid, TRUE)
  \/ LoginDone(sid)

\* A client that logs in by account, with or without the admin password, also
\* while it is logged in, and leaves.
AccountClient(sid) ==
  \/ Connect(sid)
  \/ Disconnect(sid)
  \/ \E grant \in BOOLEAN : LoginStart(sid, "account", grant, FALSE)
  \/ \E isAdmin \in BOOLEAN, name \in Names : LoginReturned(sid, TRUE, name, isAdmin)
  \/ LoginIpSaved(sid)
  \/ LoginGotMessages(sid, TRUE)
  \/ LoginDone(sid)

\* /ban and /unban sent from connection sid
BanCommands(sid) ==
  \E target \in Targets :
     \/ \E syncSet \in SUBSET {1, 2} : SendBan(sid, target, syncSet)
     \/ SendUnban(sid, target)

\* A client that logs in once, to an account of the ADMIN_USERS list and with
\* the admin password, and stays.
ModeratorClient(sid) ==
  \/ Connect(sid)
  \/ (currentUser[sid] = NoUser /\ LoginStart(sid, "account", TRUE, FALSE))
  \/ \E name \in ADMIN_USERS : LoginReturned(sid, TRUE, name, FALSE)
  \/ LoginIpSaved(sid)
  \/ LoginGotMessages(sid, TRUE)
  \/ LoginDone(sid)

\* A client that logs in once by token, without the admin flag, and stays.
MemberClient(sid) ==
  \/ Connect(sid)
  \/ (currentUser[sid] = NoUser /\ LoginStart(sid, "token", FALSE, FALSE))
  \/ \E name \in Names : LoginReturned(sid, TRUE, name, FALSE)
  \/ LoginIpSaved(sid)
  \/ LoginGotMessages(sid, TRUE)
  \/ LoginDone(sid)

\* /mute for a time that ends within the model's clock, and /unmute
MuteCommands(sid) ==
  \E target \in Names :
     \/ \E secs \in 1..MaxMuteSecs :
           now + secs * MsPerSec <= MaxTime /\ SendMute(sid, target, secs)
     \/ SendUnmute(sid, target)

\* a chat line, sent and then stored or lost with a store error
ChatSends(sid) ==
  \/ SendChat(sid)
  \/ ChatStored(sid, TRUE)
  \/ SendThrow(sid)

\* a message of a muted sender, with both clock readings
MutedSends(sid) == \E t2 \in SecondReading(now) : SendMuted(sid, t2)

Next == RichClient(1) \/ SimpleClient(2)

Spec == Init /\ [][Next]_vars

NextBan == AccountClient(1) \/ SimpleClient(2) \/ BanCommands(1)

SpecBan == Init /\ [][NextBan]_vars

\* /mute, /ban and /ipban sent from one socket
GuardCommands(sid) ==
  \/ \E target \in Names :
        \/ SendMute(sid, target, 1)
        \/ \E syncSet \in SUBSET {1, 2} : SendBan(sid, target, syncSet)
        \/ SendIpBan(sid, target, NoUser)
  \/ \E syncSet \in SUBSET {1, 2} : IpBanStored(sid, syncSet)
  \/ SendMuted(sid, now)

NextGuard == AccountClient(1) \/ SimpleClient(2) \/ GuardCommands(1)
SpecGuard == Init /\ [][NextGuard]_vars

NextMute ==
  \/ ModeratorClient(1) \/ MemberClient(2)
  \/ MuteCommands(1)
  \/ ChatSends(2)
  \/ MutedSends(1) \/ MutedSends(2)
  \/ \E t \in Instants : Tick(t)
SpecMute == Init /\ [][NextMute]_vars

\* every moderation command, sent from one socket with any argument
AnyCommand(sid) ==
  \/ SendDelete(sid)
  \/ \E target \in Targets :
        \/ SendMute(sid, target, 1)
        \/ SendUnmute(sid, target)
        \/ SendBan(sid, target, {})
        \/ SendUnban(sid, target)
        \/ SendIpBan(sid, target, NoUser)
  \/ \E syncSet \in SUBSET {1} : IpBanStored(sid, syncSet)
  \/ \E ip \in {"ip1", NoArg} : SendIpUnban(sid, ip)
  \/ IpUnbanDone(sid)
  \/ SendIpBanList(sid)
  \/ IpBanListDone(sid)

\* A client that logs in once by account with the admin password and stays.
FlaggedClient(sid) ==
  \/ Connect(sid)
  \/ (currentUser[sid] = NoUser /\ LoginStart(sid, "account", TRUE, FALSE))
  \/ \E name \in Names : LoginReturned(sid, TRUE, name, FALSE)
  \/ LoginIpSaved(sid)
  \/ LoginGotMessages(sid, TRUE)
  \/ LoginDone(sid)

NextErr ==
  \/ FlaggedClient(1) \/ MemberClient(2)
  \/ (now + MsPerSec <= MaxTime /\ \E target \in Names : SendMute(1, target, 1))
  \/ AnyCommand(2)
  \/ SendMuted(2, now)
  \/ \E t \in Instants : Tick(t)
SpecErr == Init /\ [][NextErr]_vars

\* A client that logs in by token when it is not logged in, with or without
\* the account's admin flag, and gets the history from the store or not.
HistoryClient(sid) ==
  \/ Connect(sid)
  \/ Disconnect(sid)
  \/ (currentUser[sid] = NoUser /\ LoginStart(sid, "token", FALSE, FALSE))
  \/ \E isAdmin \in BOOLEAN : LoginReturned(sid, TRUE, "A", isAdmin)
  \/ LoginIpSaved(sid)
  \/ \E fresh \in BOOLEAN : LoginGotMessages(sid, fresh)
  \/ LoginDone(sid)

\* everything a connection does to the ring
RingCommands(sid) ==
  \/ SendChat(sid)
  \/ \E persisted \in BOOLEAN :
        \/ ChatStored(sid, persisted)
        \/ GameFirstStored(sid, persisted)
        \/ GameSecondStored(sid, persisted)
  \/ SendGame(sid)
  \/ SendDelete(sid)
  \/ DeleteDone(sid)
  \/ SendThrow(sid)
  \/ \E op \in {"edit", "remove"}, id \in 1..MaxIds : MutateStart(sid, op, id)
  \/ EditReturned(sid)
  \/ RemoveReturned(sid)

NextRing == HistoryClient(1) \/ RingCommands(1)
SpecRing == Init /\ [][NextRing]_vars

\* the handlers of one socket whose store calls may throw
ThrowingCalls(sid) ==
  \/ LoginThrow(sid)
  \/ SendChat(sid)
  \/ ChatStored(sid, TRUE)
  \/ SendThrow(sid)
  \/ \E op \in {"edit", "remove"}, id \in 1..MaxIds : MutateStart(sid, op, id)
  \/ EditReturned(sid)
  \/ RemoveReturned(sid)
  \/ MutateThrow(sid)

NextThrow ==
  \/ MemberClient(1)
  \/ ThrowingCalls(1)
SpecThrow == Init /\ [][NextThrow]_vars

\* A client that logs in by token as "A" when it is not logged in, and leaves.
LeavingClient(sid) ==
  \/ Connect(sid)
  \/ Disconnect(sid)
  \/ (currentUser[sid] = NoUser /\ LoginStart(sid, "token", FALSE, FALSE))
  \/ LoginReturned(sid, TRUE, "A", FALSE)
  \/ LoginIpSaved(sid)
  \/ LoginGotMessages(sid, TRUE)
  \/ LoginDone(sid)

NextLeave ==
  \/ ModeratorClient(1)
  \/ LeavingClient(2) \/ LeavingClient(3)
  \/ AccountLogout(2)
  \/ (now + MsPerSec <= MaxTime /\ SendMute(1, "A", 1))
  \/ SendBan(1, "A", {})
SpecLeave == Init /\ [][NextLeave]_vars

\* /omi sent from one socket
OmiCommands(sid) ==
  \/ \E r \in Draws : SendOmi(sid, r)
  \/ GameFirstStored(sid, TRUE)
  \/ GameSecondStored(sid, TRUE)
  \/ SendThrow(sid)

NextOmi == MemberClient(1) \/ OmiCommands(1)
SpecOmi == Init /\ [][NextOmi]_vars

\* /color sent from one socket
ColorCommands(sid) ==
  \/ \E valid \in BOOLEAN, known \in BOOLEAN : SendColor(sid, valid, known)
  \/ ColorStored(sid)
  \/ SendThrow(sid)

NextColor ==
  \/ MemberClient(1) \/ MemberClient(2)
  \/ ColorCommands(1) \/ ColorCommands(2)
SpecColor == Init /\ [][NextColor]_vars

\* slash lines of one token, stored or lost with a store error
SlashSends(sid) ==
  \/ \E token \in SlashLines : SendSlash(sid, token)
  \/ ChatStored(sid, TRUE)
  \/ SendThrow(sid)

NextSlash ==
  \/ ModeratorClient(1) \/ MemberClient(2)
  \/ (now + MsPerSec <= MaxTime /\ \E target \in Names : SendMute(1, target, 1))
  \/ SlashSends(2)
  \/ SendMuted(2, now)
  \/ \E t \in Instants : Tick(t)
SpecSlash == Init /\ [][NextSlash]_vars

\* a chat line, sent and then stored, not stored, or lost with a store error
ChatTraffic(sid) ==
  \/ SendChat(sid)
  \/ \E persisted \in BOOLEAN : ChatStored(sid, persisted)
  \/ SendThrow(sid)

NextChat ==
  \/ MemberClient(1) \/ MemberClient(2)
  \/ ChatTraffic(1) \/ ChatTraffic(2)
SpecChat == Init /\ [][NextChat]_vars

\* A client that logs in by token, also while it is logged in, and leaves.
SwitchClient(sid) ==
  \/ Connect(sid)
  \/ Disconnect(sid)
  \/ LoginStart(sid, "token", FALSE, FALSE)
  \/ \E name \in Names : LoginReturned(sid, TRUE, name, FALSE)
  \/ LoginIpSaved(sid)
  \/ LoginGotMessages(sid, TRUE)
  \/ LoginDone(sid)

\* /prm sent from one socket, stored or lost with a store error
PrmCommands(sid) ==
  \/ \E prmTarget \in Targets : SendPrm(sid, prmTarget)
  \/ PrmStored(sid)
  \/ SendThrow(sid)

NextPrm == MemberClient(1) \/ SwitchClient(2) \/ PrmCommands(1)
SpecPrm == Init /\ [][NextPrm]_vars

\* private messages edited and deleted from one socket
PrivateMutations(sid) ==
  \/ \E op \in {"editPm", "removePm"}, id \in 1..MaxIds : PrivateMutateStart(sid, op, id)
  \/ PrivateEditReturned(sid)
  \/ PrivateRemoveReturned(sid)

NextPrivate ==
  \/ MemberClient(1) \/ MemberClient(2)
  \/ \E prmTarget \in Names : SendPrm(1, prmTarget)
  \/ PrmStored(1)
  \/ PrivateMutations(1) \/ PrivateMutations(2)
SpecPrivate == Init /\ [][NextPrivate]_vars

\* A client that logs in once by token as "B", an account that is neither in
\* Names nor in ADMIN_USERS, and stays.
BystanderClient(sid) ==
  \/ Connect(sid)
  \/ (currentUser[sid] = NoUser /\ LoginStart(sid, "token", FALSE, FALSE))
  \/ LoginReturned(sid, TRUE, "B", FALSE)
  \/ LoginIpSaved(sid)
  \/ LoginGotMessages(sid, TRUE)
  \/ LoginDone(sid)

NextText ==
  \/ MemberClient(1) \/ MemberClient(2) \/ BystanderClient(3)
  \/ \E prmTarget \in Names : SendPrm(1, prmTarget)
  \/ PrmStored(1)
  \/ PrivateMutations(1)
SpecText == Init /\ [][NextText]_vars

\* ------------------------------------------------------------------ claims

\* no login handler is suspended
Quiescent == \A s \in Sids : loginFrame[s].pc = "idle"

\* C1: an identity is returned by getUniqueOnlineUsers() if and only if at
\* least one currently open connection is logged in as it (stated for the
\* states in which no login handler is suspended).
C1_OnlineIffOpenConnection ==
  Quiescent =>
    \A n \in Names :
       n \in getUniqueOnlineUsers(userSockets)
         <=> \E s \in Sids : conn[s] = "open" /\ currentUser[s] = n

\* the identity whose message the step handles
Actor ==
  IF msgFrame[last'.sid].pc = "idle" THEN currentUser[last'.sid]
  ELSE msgFrame[last'.sid].user

\* C2: a message of an actor whose name is not in ADMIN_USERS creates no mute
\* entry for a name in ADMIN_USERS, does not add it to the ban set, closes none
\* of its connections and does not ban the address of one, whatever admin
\* flags the actor's and the target's sockets hold.
C2_PrivilegedProtected ==
  [][(last'.op = "sendMessage" /\ Actor \notin ADMIN_USERS) =>
       \A p \in ADMIN_USERS :
          /\ MapHas(mutedUsers', p) =>
                MapHas(mutedUsers, p) /\ mutedUsers'[p] = mutedUsers[p]
          /\ p \in bannedUsers' => p \in bannedUsers
          /\ \A s \in Sids :
                (currentUser[s] = p /\ conn[s] = "open") =>
                   /\ conn'[s] = "open"
                   /\ ClientIp(s) \in dbIpBans' => ClientIp(s) \in dbIpBans]_vars

\* the step begins the sendMessage handler of socket s (lines 887-898)
CheckStep(s) == last'.op = "sendMessage" /\ last'.sid = s /\ msgFrame[s].pc = "idle"

\* the identity has a mute entry that has not ended / that has ended
MutedNow(u) == MapHas(mutedUsers, u) /\ now < mutedUsers[u]
ExpiredNow(u) == MapHas(mutedUsers, u) /\ now >= mutedUsers[u]

\* every emission of the step goes to socket s alone
OnlyTo(s) == \A e \in out' : e.scope = "one" /\ e.to = {s}

\* C3: a sendMessage of an identity with an unexpired mute entry is rejected
\* and does nothing else: the ring, the store, the mute map, the ban set and
\* the registry stay as they are, no store call is pending, nothing is emitted
\* but to the sender, so no command was dispatched; a chat line sent when the
\* entry has expired is appended to the ring, and when its store call returns
\* it is persisted and broadcast to the room.
C3_MutedSendRejected ==
  [][\A s \in Sids :
        /\ (CheckStep(s) /\ MutedNow(currentUser[s])) =>
              /\ last'.result = "muted"
              /\ messages' = messages /\ dbMessages' = dbMessages
              /\ dbIpBans' = dbIpBans /\ msgFrame' = msgFrame
              /\ mutedUsers' = mutedUsers /\ bannedUsers' = bannedUsers
              /\ userSockets' = userSockets /\ conn' = conn
              /\ OnlyTo(s)
        /\ (CheckStep(s) /\ ~MutedNow(currentUser[s]) /\ last'.cmd = "chat") =>
              /\ last'.result = "suspended"
              /\ ~MapHas(mutedUsers', currentUser[s])
              /\ messages' # << >>
              /\ messages'[Len(messages')].id = last'.num
              /\ messages'[Len(messages')].user = currentUser[s]
        /\ (msgFrame[s].pc = "plain" /\ last'.op = "sendMessage" /\ last'.sid = s
              /\ last'.result = "success") =>
              /\ Emit("message", "all", {}, msgFrame[s].user) \in out'
              /\ Emit("callback", "one", {s}, "success") \in out'
              /\ dbMessages' # << >>
              /\ dbMessages'[Len(dbMessages')].id = msgFrame[s].id]_vars

\* a chat line of a sender whose mute had expired was taken
C3_Witness ==
  /\ last.cmd = "chat"
  /\ last.gate = "expired"
  /\ messages # << >>
  /\ messages[Len(messages)].id = last.num

\* C4: a mute stored at t for d seconds makes every check before t + d * 1000
\* report muted with a remaining time of at least 1 second, and every check at
\* or after it report not muted and delete the entry (a /mute of the sender by
\* that very message may store a new one); no entry goes without a check of
\* its identity at or after its end, /unmute aside.
C4_MuteWindow ==
 [][
  /\ \A s \in Sids :
        (CheckStep(s) /\ MapHas(mutedUsers, currentUser[s])) =>
          LET u == currentUser[s]
              until == mutedUsers[u]
          IN IF now < until
               THEN /\ last'.result = "muted"
                    /\ mutedUsers' = mutedUsers
                    /\ last'.num >= 1
                    /\ (last'.num - 1) * MsPerSec < until - now
               ELSE /\ last'.result # "muted"
                    /\ MapHas(mutedUsers', u) =>
                          /\ last'.cmd = "/mute" /\ last'.target = u
                          /\ last'.result = "system"
  /\ (last'.cmd = "/mute" /\ last'.result = "system") =>
        /\ MapHas(mutedUsers', last'.target)
        /\ mutedUsers'[last'.target] = now + last'.num * MsPerSec
  /\ \A u \in Names :
        (MapHas(mutedUsers, u) /\ ~MapHas(mutedUsers', u)) =>
          /\ last'.op = "sendMessage"
          /\ \/ currentUser[last'.sid] = u /\ now >= mutedUsers[u]
             \/ last'.cmd = "/unmute" /\ last'.target = u /\ last'.result = "system"
 ]_vars

\* the step is a /ban that returned its success result
BanSucceeded == last'.cmd = "/ban" /\ last'.result = "system"

\* C5: when /ban of a present target succeeds, the target is in the ban set,
\* has no registry entry, none of its former connection ids remain in
\* onlineUsers or adminUsers, its status and IP cache entries are removed, and
\* a userLeft naming it has been broadcast room-wide.
C5_BanPurgesTarget ==
  [][BanSucceeded =>
       LET t == last'.target
       IN /\ t \in bannedUsers'
          /\ ~MapHas(userSockets', t)
          /\ \A s \in userSockets[t] : ~MapHas(onlineUsers', s) /\ s \notin adminUsers'
          /\ ~MapHas(userStatusMap', t)
          /\ ~MapHas(userIpMap', t)
          /\ Emit("userLeft", "all", {}, t) \in out']_vars

\* C6: no identity of the ban set is present in the session registry.
C6_BannedNotPresent ==
  \A n \in bannedUsers : ~MapHas(userSockets, n)

\* C7: a successful /ban of a present, not banned identity directly followed
\* by its successful /unban leaves the ban set with the membership it had
\* before the /ban, and the /unban brings no connection back to the registry.
C7_BanUnbanRoundTrip ==
  [][/\ (BanSucceeded /\ last'.num = 0) =>
          bannedUsers' = bannedUsers \cup {last'.target}
     /\ (last'.cmd = "/unban" /\ last'.result = "system" /\ last'.num = 1) =>
          /\ bannedUsers' = bannedUsers \ {last.target}
          /\ last.target \notin bannedUsers'
          /\ userSockets' = userSockets
          /\ ~MapHas(userSockets', last.target)
          /\ onlineUsers' = onlineUsers
          /\ conn' = conn]_vars

\* a /ban of a not banned identity was directly followed by its /unban
C7_Witness ==
  last.cmd = "/unban" /\ last.result = "system" /\ last.num = 1

\* C8: when a login that grants no admin flag (the account has none and no
\* admin password was given) reaches line 641, the connection does not hold
\* the flag afterwards.
C8_ReloginDropsFlag ==
  [][\A s \in Sids :
        (loginFrame[s].pc = "saveIp" /\ ~loginFrame[s].admin
           /\ loginFrame'[s].pc = "getMessages")
        => s \notin adminUsers']_vars

\* the step is a command that returned an error result
ErrorStep == last'.op = "sendMessage" /\ last'.result = "error"

\* Everything but the mute map stays as it is and the step emits to the
\* actor's socket only.
ErrorKeepsState ==
  /\ messages' = messages /\ dbMessages' = dbMessages /\ dbIpBans' = dbIpBans
  /\ bannedUsers' = bannedUsers /\ userSockets' = userSockets
  /\ onlineUsers' = onlineUsers /\ adminUsers' = adminUsers
  /\ userStatusMap' = userStatusMap /\ userIpMap' = userIpMap
  /\ conn' = conn /\ currentUser' = currentUser
  /\ OnlyTo(last'.sid)

\* C9: a moderation command that returns an error result changes neither the
\* ring, the mute map, the ban set, the registry nor the persisted IP bans,
\* and its error goes to the acting connection only.
C9_ErrorChangesNothing ==
  [][ErrorStep => (ErrorKeepsState /\ mutedUsers' = mutedUsers)]_vars

\* C9 with the mute check that runs before the command: the mute map changes
\* only by the actor's own expired entry, which the check deletes.
C9_ErrorChangesOnlyExpiredMute ==
  [][ErrorStep =>
       /\ ErrorKeepsState
       /\ mutedUsers' =
            (IF CheckStep(last'.sid) /\ ExpiredNow(currentUser[last'.sid])
               THEN MapDelete(mutedUsers, currentUser[last'.sid])
               ELSE mutedUsers)]_vars

\* a refused command of an actor whose own mute had expired
C9_Witness ==
  /\ last.op = "sendMessage"
  /\ last.result = "error"
  /\ last.gate = "expired"
  /\ ~MapHas(mutedUsers, currentUser[last.sid])

\* C10: the ring never holds more than MAX_HISTORY messages, and a step that
\* appends a message puts it last and, when the ring was full, removes the
\* oldest message and nothing else, the rest keeping their order.
C10_RingBounded ==
  [][/\ Len(messages) <= MAX_HISTORY
     /\ Len(messages') <= MAX_HISTORY
     /\ (nextId' = nextId + 1) =>
          /\ messages' # << >>
          /\ LET m == messages'[Len(messages')]
             IN /\ m.id = nextId'
                /\ messages' = IF Len(messages) < MAX_HISTORY
                                  THEN Append(messages, m)
                                  ELSE Append(Tail(messages), m)]_vars

\* a message was appended to a full ring
C10_Witness ==
  /\ last.evicts
  /\ Len(messages) = MAX_HISTORY
  /\ messages[Len(messages)].id = last.num

\* the step ends the plain-message handler of socket s by its broadcast
ChatBroadcast(s) ==
  /\ msgFrame[s].pc = "plain"
  /\ Emit("message", "all", {}, msgFrame[s].user) \in out'

\* C11: the 'message' broadcasts of plain chat messages sent on different
\* connections occur in the order in which the handlers began (the order of
\* the ids they drew): when a message is broadcast, no handler that began
\* earlier still has its message to broadcast.
C11_BroadcastInStartOrder ==
  [][\A s \in Sids :
        ChatBroadcast(s) =>
          \A s2 \in Sids \ {s} :
             msgFrame[s2].pc = "plain" => msgFrame[s2].id > msgFrame[s].id]_vars

\* the plain-message handler of socket s ends in the step and its store write
\* has not persisted the message
ChatNotPersisted(s) ==
  /\ msgFrame[s].pc = "plain"
  /\ msgFrame'[s].pc = "idle"
  /\ dbMessages' = dbMessages

\* C12: when the store write of a plain chat message fails, the message
\* stays in the ring as the append left it, is broadcast to the room and the
\* sender's callback reports success.
C12_SendSurvivesStoreFailure ==
  [][\A s \in Sids :
        ChatNotPersisted(s) =>
          /\ messages' = messages
          /\ Emit("message", "all", {}, msgFrame[s].user) \in out'
          /\ Emit("callback", "one", {s}, "success") \in out']_vars

\* a /prm whose handler ran to its end while no login was in flight
PrmDelivered ==
  /\ last'.op = "sendMessage" /\ last'.cmd = "/prm" /\ last'.result = "private"
  /\ Quiescent

\* the connections logged in as u
ConnectionsOf(u) == {s \in Sids : conn[s] = "open" /\ currentUser[s] = u}

\* the connections an event about u is emitted to in this step
Receivers(ev, u) == {s \in Sids : Emit(ev, "one", {s}, u) \in out'}

\* C13: a successful /prm delivers privateMessage to every connection of the
\* recipient and to no other connection, privateMessageMonitor to every
\* connection of every present PrivilegedAdmin and to no other, and
\* privateMessageSent to the sender's originating connection only.
C13_PrmDelivery ==
  [][PrmDelivered =>
       /\ Receivers("privateMessage", last'.target) = ConnectionsOf(last'.target)
       /\ Receivers("privateMessageMonitor", last'.target)
            = UNION {ConnectionsOf(a) : a \in ADMIN_USERS}
       /\ Receivers("privateMessageSent", last'.target) = {last'.sid}]_vars

\* the step is the part of /prm that runs before anything is stored
PrmStep ==
  /\ last'.op = "sendMessage" /\ last'.cmd = "/prm"
  /\ last'.result \in {"error", "suspended"}

\* the recipient named is the sender, or is not in the registry
PrmRefused ==
  /\ last'.target # NoArg
  /\ \/ last'.target = currentUser[last'.sid]
     \/ ~MapHas(userSockets, last'.target)

PrivateEvents ==
  {"privateMessage", "privateMessageMonitor", "privateMessageSent"}

\* C14: a /prm whose recipient is the sender, or is not in the registry,
\* returns an error to the acting connection only, persists nothing and emits
\* none of privateMessage, privateMessageMonitor and privateMessageSent.
C14_PrmRefused ==
  [][(PrmStep /\ PrmRefused) =>
       /\ last'.result = "error"
       /\ dbPrivate' = dbPrivate /\ dbMessages' = dbMessages /\ messages' = messages
       /\ msgFrame' = msgFrame
       /\ Emit("systemMessage", "one", {last'.sid}, "error") \in out'
       /\ OnlyTo(last'.sid)
       /\ \A e \in out' : e.ev \notin PrivateEvents]_vars

\* a /prm to the sender's own name, which is in the registry, was refused
C14_Witness ==
  /\ last.op = "sendMessage" /\ last.cmd = "/prm" /\ last.result = "error"
  /\ last.target = currentUser[last.sid]
  /\ MapHas(userSockets, last.target)
  /\ dbPrivate # {}

\* the step ends an editMessage or deleteMessage of a private message
PrivateMutateStep ==
  /\ last'.op \in {"editPm", "removePm"}
  /\ last'.result \in {"success", "rejected"}

\* the actor of the step may change the private message it names
MayChangePrivate ==
  \/ last'.target \in ADMIN_USERS
  \/ \E pm \in dbPrivate : pm.id = last'.num /\ pm.from = last'.target

RoomMutateStep ==
  /\ last'.op \in {"edit", "remove"}
  /\ last'.result \in {"success", "rejected"}

\* the store's verdict on the request the step ends
StoreAccepts ==
  LET f == msgFrame[last'.sid]
  IN dbMayMutate(dbMessages, f.id, f.user, f.admin, f.user \in ADMIN_USERS)

InRing(ms, id) == \E i \in 1..Len(ms) : ms[i].id = id

\* C16: when the store rejects an editMessage or deleteMessage of a room
\* message, the ring stays exactly as it was, neither messageEdited nor
\* messageDeleted is broadcast, and the actor gets a failure response.
C16_RejectedMutationKeepsRing ==
  [][(RoomMutateStep /\ ~StoreAccepts) =>
       /\ messages' = messages
       /\ \A e \in out' : e.ev \notin {"messageEdited", "messageDeleted"}
       /\ Emit("callback", "one", {last'.sid}, "failure") \in out']_vars

\* the store rejected a request that names a message of the ring
C16_Witness ==
  /\ last.op \in {"edit", "remove"} /\ last.result = "rejected"
  /\ InRing(messages, last.num)

\* C17: when the store accepts an editMessage of a message of the ring,
\* exactly that entry gets the new text and edited = true, every other entry
\* and the order stay; when it accepts a deleteMessage, the ring has no entry
\* with the id afterwards and the other entries keep their order; the
\* matching event is broadcast to the room.
C17_AcceptedMutationMirrored ==
  [][(RoomMutateStep /\ StoreAccepts) =>
       LET id == msgFrame[last'.sid].id
       IN IF last'.op = "edit"
            THEN /\ Len(messages') = Len(messages)
                 /\ \A i \in 1..Len(messages) :
                       messages'[i] = IF messages[i].id = id
                                        THEN [messages[i] EXCEPT !.text = "t1",
                                                                 !.edited = TRUE]
                                        ELSE messages[i]
                 /\ Emit("messageEdited", "all", {}, "") \in out'
            ELSE /\ ~InRing(messages', id)
                 /\ messages' = SelectSeq(messages, LAMBDA m : m.id # id)
                 /\ Emit("messageDeleted", "all", {}, "") \in out']_vars

\* an accepted edit of one of two messages of the ring
C17_Witness ==
  /\ last.op = "edit" /\ last.result = "success"
  /\ Len(messages) = MAX_HISTORY
  /\ \E i \in 1..Len(messages) : messages[i].id = last.num /\ messages[i].edited
  /\ \E i \in 1..Len(messages) : messages[i].id # last.num

\* the step starts the handler of a slash line the table does not know
UnknownSlashStep ==
  /\ last'.op = "sendMessage" /\ last'.target \in SlashLines
  /\ last'.result \in {"suspended", "error", "system"}
  /\ ToLower(last'.target) \notin CommandTable

\* the line is handled as a chat line: appended to the ring with its literal
\* text under the sender's name, nothing emitted before the store call, and
\* no presence state, ban or persisted IP ban changed
HandledAsChat ==
  LET s == last'.sid
  IN /\ last'.result = "suspended"
     /\ msgFrame'[s].pc = "plain"
     /\ messages' # << >>
     /\ messages'[Len(messages')]
          = Message(msgFrame'[s].id, currentUser[s], s \in adminUsers, last'.target)
     /\ \A i \in 1..(Len(messages') - 1) :
           messages'[i] = messages[i + Len(messages) + 1 - Len(messages')]
     /\ out' = {}
     /\ conn' = conn /\ currentUser' = currentUser /\ userSockets' = userSockets
     /\ onlineUsers' = onlineUsers /\ adminUsers' = adminUsers
     /\ userStatusMap' = userStatusMap /\ userIpMap' = userIpMap
     /\ bannedUsers' = bannedUsers /\ dbIpBans' = dbIpBans

\* the store call of such a line returned: the line is broadcast as 'message'
SlashLineStored(s) ==
  /\ msgFrame[s].pc = "plain" /\ msgFrame[s].arg \in SlashLines
  /\ last'.op = "sendMessage" /\ last'.sid = s /\ last'.result = "success"

SlashLineBroadcast ==
  \A s \in Sids : SlashLineStored(s) =>
     /\ Emit("message", "all", {}, msgFrame[s].user) \in out'
     /\ Emit("callback", "one", {s}, "success") \in out'
     /\ \A e \in out' : e.ev \in {"message", "callback"}

C19_ColorConfirmsToSenderOnly ==
  [][(last'.op = "sendMessage" /\ last'.cmd = "/color" /\ last'.result = "system")
       => OnlyTo(last'.sid)]_vars

\* the step is a /unmute of a named identity sent by an admin
AdminUnmuteStep ==
  /\ last'.op = "sendMessage" /\ last'.cmd = "/unmute"
  /\ last'.result \in {"error", "system"}
  /\ last'.target \in Names
  /\ last'.sid \in adminUsers

\* C20: /unmute by an admin fails with the not-muted error exactly when
\* checkMuted of the target would report false, an entry that has expired but
\* is still in the map included; it succeeds, and removes the entry, exactly
\* when the target has an unexpired mute.
C20_UnmuteFollowsCheckMuted ==
  [][AdminUnmuteStep =>
       /\ (last'.result = "error") <=> ~MutedNow(last'.target)
       /\ (last'.result = "system") <=>
             (MutedNow(last'.target) /\ ~MapHas(mutedUsers', last'.target))]_vars

\* the step is the part of /ipban that runs before the store call
IpBanRequest ==
  /\ last'.op = "sendMessage" /\ last'.cmd = "/ipban"
  /\ last'.result \in {"error", "suspended"}
  /\ last'.target # NoArg

\* the address the request names, or the one the cache holds for the name
RequestedIp ==
  IF last'.target \in Ips THEN last'.target
  ELSE IF MapHas(userIpMap, last'.target) THEN userIpMap[last'.target]
  ELSE NoArg

\* the cache maps a PrivilegedAdmin identity to the address
AdminAt(ip) == \E a \in ADMIN_USERS : MapHas(userIpMap, a) /\ userIpMap[a] = ip

\* C21: /ipban of an address the IP cache maps to a PrivilegedAdmin identity,
\* given as an address or through a name, and also when several identities
\* share the address, fails with an error and makes no store call.
C21_IpBanSparesAdminAddress ==
  [][(IpBanRequest /\ AdminAt(RequestedIp)) =>
       /\ last'.result = "error"
       /\ msgFrame' = msgFrame
       /\ dbIpBans' = dbIpBans]_vars

\* C22: when a store call throws inside a handler of an authenticated
\* connection, the handler catches it and the acting connection gets a
\* failure response through its callback.
C22_ThrowAnsweredWithFailure ==
  [][(last'.result = "thrown" /\ currentUser[last'.sid] # NoUser)
       => Emit("callback", "one", {last'.sid}, "failure") \in out']_vars

\* the sum of the weights of the first n entries, in units of 1 / Den
Cumulative(n) == SumWeights(n) * Den

\* C23: for every draw r in [0, W) drawFortune returns the first entry, in
\* table order, at which r minus the cumulative weight is <= 0; the return
\* after the loop is not reached and the label is one of the ten of the table.
C23_FortuneIsFirstCovering ==
  last.cmd = "/omi" =>
    /\ last.result # "fallback"
    /\ \E i \in 1..Len(fortunes) :
          /\ last.target = fortunes[i].result
          /\ last.num - Cumulative(i) <= 0
          /\ \A j \in 1..(i - 1) : last.num - Cumulative(j) > 0

\* a draw that lies exactly on the end of the first entry's share
C23_Witness ==
  /\ last.cmd = "/omi" /\ last.num = Cumulative(1)
  /\ last.target = fortunes[1].result

\* C24: every identity that has an entry in the session registry has a
\* non-empty set of connection ids.
C24_NoEmptyRegistryEntry ==
  \A u \in DOMAIN userSockets : userSockets[u] # {}

\* a connection of an identity left and the identity keeps another one
C24_Witness ==
  /\ last.op = "disconnect" /\ last.target # NoUser
  /\ MapHas(userSockets, last.target)
  /\ last.sid \notin userSockets[last.target]
  /\ userSockets[last.target] # {}

\* the step is the disconnect or the accountLogout of a connection
LeaveStep == last'.op \in {"disconnect", "accountLogout"}

\* the connection that leaves is the only one in the registry set of its identity
WasLastConnection ==
  /\ last'.target # NoUser
  /\ MapHas(userSockets, last'.target)
  /\ userSockets[last'.target] = {last'.sid}

\* C25: a disconnect or accountLogout leaves the mute map and the ban set
\* unchanged; it removes the identity's status and IP cache entries when the
\* connection was the identity's last one and leaves them unchanged otherwise.
C25_LeaveKeepsLedger ==
  [][LeaveStep =>
       /\ mutedUsers' = mutedUsers
       /\ bannedUsers' = bannedUsers
       /\ IF WasLastConnection
            THEN /\ userStatusMap' = MapDelete(userStatusMap, last'.target)
                 /\ userIpMap' = MapDelete(userIpMap, last'.target)
            ELSE /\ userStatusMap' = userStatusMap
                 /\ userIpMap' = userIpMap]_vars

\* the last connection of an identity with an unexpired mute has left, and the
\* identity is still muted
C25_Witness ==
  /\ last.op = "disconnect" /\ last.target # NoUser
  /\ ~MapHas(userSockets, last.target)
  /\ ~MapHas(userIpMap, last.target)
  /\ MutedNow(last.target)

\* the identities the step announces to the room as joined / as left
JoinedIn(o) == {e.about : e \in {x \in o : x.ev = "userJoined"}}
LeftIn(o) == {e.about : e \in {x \in o : x.ev = "userLeft"}}

\* C26: userJoined and userLeft alternate for every identity, starting with
\* userJoined: a userJoined is emitted only by the login that makes the
\* identity present, so the identity is in the registry when it is announced,
\* and a userLeft only by a step that takes the identity from present to absent.
C26_JoinLeftAlternate ==
  [][/\ \A u \in JoinedIn(out') : MapHas(userSockets', u)
     /\ \A u \in LeftIn(out') : MapHas(userSockets, u) /\ ~MapHas(userSockets', u)]_vars

\* the events that carry the text of a private message (lines 394, 405, 411, 984)
TextEvents ==
  {"privateMessage", "privateMessageMonitor", "privateMessageSent", "privateMessageEdited"}

\* the sender and the recipient of the private message the step is about
TextParties ==
  IF last'.cmd = "/prm" THEN {msgFrame[last'.sid].user, last'.target}
  ELSE UNION {{pm.from, pm.to} : pm \in {x \in dbPrivate : x.id = last'.num}}

\* the connections an emission reaches
Reached(e) == IF e.scope = "all" THEN Namespace(conn') ELSE e.to

\* C27: no event of /prm, or of editMessage or deleteMessage on a private
\* message, carries the text to a connection of an identity that is neither
\* the sender, the recipient nor a PrivilegedAdmin.
C27_PrivateTextStaysPrivate ==
  [][\A e \in out' : e.ev \in TextEvents =>
        \A s \in Reached(e) :
           currentUser[s] \in TextParties \cup ADMIN_USERS \cup {NoUser}]_vars

\* the emission carries an IP address: 'userIpList', and the result message of
\* a successful /ipban or /ipunban (lines 293, 328, 341) or of /ipbanlist with
\* a list that is not empty (line 355)
CarriesIp(e) ==
  \/ e.ev = "userIpList"
  \/ /\ e.ev = "systemMessage" /\ e.about = "system"
     /\ last'.op = "sendMessage"
     /\ \/ last'.cmd \in {"/ipban", "/ipunban"}
        \/ last'.cmd = "/ipbanlist" /\ dbIpBans # {}

\* C28: no event of login, broadcastUserIpList, /ipban, /ipunban or /ipbanlist
\* carries an IP address to a connection of an identity that is not a
\* PrivilegedAdmin.
C28_IpOnlyToPrivileged ==
  [][\A e \in out' : CarriesIp(e) =>
        \A s \in Reached(e) : currentUser[s] \in ADMIN_USERS \cup {NoUser}]_vars

\* the step in which /prm resumes after db.addPrivateMessage wrote the message
PrmPersistStep == last'.op = "sendMessage" /\ last'.cmd = "/prm" /\ dbPrivate' # dbPrivate

\* C29: every private message that /prm persists is followed by
\* 'privateMessageSent' to the sender and a success result, also when the
\* recipient left while the handler was suspended at the store write; a
\* persisted message is never reported as a send failure.
C29_PersistedPrmConfirmed ==
  [][PrmPersistStep =>
       /\ Emit("privateMessageSent", "one", {last'.sid}, last'.target) \in out'
       /\ Emit("callback", "one", {last'.sid}, "success") \in out'
       /\ Emit("callback", "one", {last'.sid}, "failure") \notin out']_vars

\* the registry set of identity n holds connection s
Registered(s, n) == MapHas(userSockets, n) /\ s \in userSockets[n]

\* C30: whenever no login handler is suspended, a connection id belongs to the
\* registry set of identity X if and only if the connection-to-identity map
\* maps that id to X, so a connection id is in the set of at most one
\* identity, also after a second login as a different identity without logout.
C30_RegistryAgreesWithMap ==
  Quiescent =>
    \A s \in Sids, n \in Names :
       Registered(s, n) <=> (MapHas(onlineUsers, s) /\ onlineUsers[s] = n)

====
